---------------------------- MODULE Spec2Model ----------------------------
(***************************************************************************)
(* gospelo-backlog-docs: WikiUploader.upload() and the Markdown scanner.   *)
(*                                                                         *)
(* Text is a sequence of atoms.  An atom is one character of the document, *)
(* or one fixed lexeme that the patterns of markdown_parser.py treat as a  *)
(* unit ("```", "mermaid", "image", "./", "u/", "https://").  The regular  *)
(* expressions, str.count, str.replace and remove_emojis are computed on   *)
(* these sequences the way Python computes them on strings.                *)
(***************************************************************************)
EXTENDS Integers, Sequences, FiniteSets, TLC

(***************************************************************************)
(* Bounds of the model.                                                    *)
(***************************************************************************)
\* A document is the concatenation of at most MaxFrags fragments.
MaxFrags == 2
\* One uploader serves at most MaxUploads upload() calls.
MaxUploads == 2

(***************************************************************************)
(* Text primitives.                                                        *)
(***************************************************************************)
Emoji == "U+1F600"
Fence == "FENCE3"
NL == "\n"

\* Characters matched by \s in the patterns and stripped by str.strip().
Whitespace == {NL, " "}

\* s[k..] starts with t.
StartsWithAt(s, t, k) ==
    /\ k + Len(t) - 1 <= Len(s)
    /\ \A j \in 1..Len(t) : s[k + j - 1] = t[j]

\* Smallest index >= k at which atom c stands in s, 0 when there is none.
FindFrom(s, c, k) ==
    LET hits == {j \in k..Len(s) : s[j] = c}
    IN  IF hits = {} THEN 0 ELSE CHOOSE j \in hits : \A h \in hits : j <= h

RECURSIVE CountFrom(_, _, _)
CountFrom(s, old, k) ==
    IF k + Len(old) - 1 > Len(s) THEN 0
    ELSE IF StartsWithAt(s, old, k) THEN 1 + CountFrom(s, old, k + Len(old))
    ELSE CountFrom(s, old, k + 1)

\* str.count(old): the number of non-overlapping occurrences, left to right.
StrCount(s, old) == CountFrom(s, old, 1)

\* old occurs somewhere in s.
Occurs(old, s) == \E k \in 1..Len(s) : StartsWithAt(s, old, k)

RECURSIVE ReplaceFromFirst(_, _, _, _)
ReplaceFromFirst(s, old, new, k) ==
    IF k > Len(s) THEN <<>>
    ELSE IF StartsWithAt(s, old, k)
         THEN new \o SubSeq(s, k + Len(old), Len(s))
         ELSE <<s[k]>> \o ReplaceFromFirst(s, old, new, k + 1)

\* A replace that stops after the first occurrence (str.replace(old, new, 1)).
StrReplaceFirstOnly(s, old, new) == ReplaceFromFirst(s, old, new, 1)

RECURSIVE ReplaceFrom(_, _, _, _)
ReplaceFrom(s, old, new, k) ==
    IF k > Len(s) THEN <<>>
    ELSE IF StartsWithAt(s, old, k)
         THEN new \o ReplaceFrom(s, old, new, k + Len(old))
         ELSE <<s[k]>> \o ReplaceFrom(s, old, new, k + 1)

\* str.replace(old, new): every non-overlapping occurrence, left to right.
StrReplace(s, old, new) == ReplaceFrom(s, old, new, 1)

\* remove_emojis: every character of the emoji ranges is dropped.
NotEmoji(c) == c # Emoji
remove_emojis(text) == SelectSeq(text, NotEmoji)

RECURSIVE StripLeft(_)
StripLeft(s) ==
    IF s # <<>> /\ Head(s) \in Whitespace THEN StripLeft(Tail(s)) ELSE s

RECURSIVE StripRight(_)
StripRight(s) ==
    IF s # <<>> /\ s[Len(s)] \in Whitespace
    THEN StripRight(SubSeq(s, 1, Len(s) - 1)) ELSE s

\* str.strip()
Strip(s) == StripRight(StripLeft(s))

(***************************************************************************)
(* markdown_parser.py                                                      *)
(***************************************************************************)
\* IMAGE_PATTERN  !\[([^\]]*)\]\(([^)]+)\)  tried at position k.  The alt
\* text ends at the first "]", which "(" must follow; the path is the
\* non-empty run up to the first ")".  end = 0 when there is no match at k.
ImageMatchAt(s, k) ==
    LET none == [end |-> 0, alt |-> <<>>, path |-> <<>>]
    IN  IF ~(k + 1 <= Len(s) /\ s[k] = "!" /\ s[k + 1] = "[") THEN none
        ELSE LET j == FindFrom(s, "]", k + 2)
             IN  IF j = 0 \/ j + 1 > Len(s) \/ s[j + 1] # "(" THEN none
                 ELSE LET e == FindFrom(s, ")", j + 2)
                      IN  IF e = 0 \/ e = j + 2 THEN none
                          ELSE [end |-> e,
                                alt |-> SubSeq(s, k + 2, j - 1),
                                path |-> SubSeq(s, j + 2, e - 1)]

RECURSIVE ImagesFrom(_, _)
ImagesFrom(s, k) ==
    IF k > Len(s) THEN <<>>
    ELSE LET m == ImageMatchAt(s, k)
         IN  IF m.end = 0 THEN ImagesFrom(s, k + 1)
             ELSE <<[original_text |-> SubSeq(s, k, m.end),
                     alt_text |-> m.alt,
                     path |-> m.path,
                     start_pos |-> k]>> \o ImagesFrom(s, m.end + 1)

\* MarkdownParser.extract_images: finditer, left to right, non-overlapping.
extract_images(s) == ImagesFrom(s, 1)

\* MERMAID_PATTERN  ```mermaid\s*\n(.*?)\n```  (DOTALL) tried at position k.
\* \s* is greedy and backtracks: the "\n" that ends it is the last newline
\* of the whitespace run after which a closing "\n```" exists; the body is
\* the shortest text up to such a closing.
MermaidMatchAt(s, k) ==
    LET none == [end |-> 0, body |-> <<>>]
    IN  IF ~(k + 1 <= Len(s) /\ s[k] = Fence /\ s[k + 1] = "mermaid") THEN none
        ELSE LET InRun(e) == \A j \in (k + 2)..e : s[j] \in Whitespace
                 Closing(e) == {c \in (e + 1)..(Len(s) - 1) :
                                    s[c] = NL /\ s[c + 1] = Fence}
                 cand == {e \in (k + 2)..Len(s) :
                              InRun(e) /\ s[e] = NL /\ Closing(e) # {}}
             IN  IF cand = {} THEN none
                 ELSE LET e == CHOOSE x \in cand : \A y \in cand : y <= x
                          c == CHOOSE x \in Closing(e) :
                                   \A y \in Closing(e) : x <= y
                      IN  [end |-> c + 1, body |-> SubSeq(s, e + 1, c - 1)]

RECURSIVE MermaidFrom(_, _)
MermaidFrom(s, k) ==
    IF k > Len(s) THEN <<>>
    ELSE LET m == MermaidMatchAt(s, k)
         IN  IF m.end = 0 THEN MermaidFrom(s, k + 1)
             ELSE <<[original_text |-> SubSeq(s, k, m.end),
                     code |-> Strip(m.body),
                     start_pos |-> k]>> \o MermaidFrom(s, m.end + 1)

\* MarkdownParser.extract_mermaid_blocks
extract_mermaid_blocks(s) == MermaidFrom(s, 1)

\* The files that exist below the document's directory.
Files == {<<"p">>, <<"q">>, <<"u/", "p">>}

\* (base_dir / path).resolve(): "./" components vanish.
NotDot(c) == c # "./"
Resolved(path) == SelectSeq(path, NotDot)

\* MarkdownParser.resolve_image_path; <<>> stands for None.
ResolveAnyPath(path) == Resolved(path)
resolve_image_path(path) ==
    IF path[1] \in {"http://", "https://", "//"} THEN <<>>
    ELSE IF Resolved(path) \in Files THEN Resolved(path)
    ELSE <<>>

RECURSIVE LocalOf(_)
LocalOf(imgs) ==
    IF imgs = <<>> THEN <<>>
    ELSE LET r == resolve_image_path(Head(imgs).path)
         IN  (IF r = <<>> THEN <<>>
              ELSE <<[original_text |-> Head(imgs).original_text,
                      path |-> r]>>) \o LocalOf(Tail(imgs))

\* MarkdownParser.get_all_local_images: (reference, resolved path) pairs.
get_all_local_images(s) == LocalOf(extract_images(s))

\* Python's None, where the value may also be the empty string.
None == <<"None">>

\* The position just after the last character of the line that holds k.
RECURSIVE LineEnd(_, _)
LineEnd(s, k) ==
    IF k > Len(s) \/ s[k] = NL THEN k ELSE LineEnd(s, k + 1)

\* How many whitespace characters stand at k, k+1, ...
RECURSIVE WhitespaceRun(_, _)
WhitespaceRun(s, k) ==
    IF k <= Len(s) /\ s[k] \in Whitespace
    THEN 1 + WhitespaceRun(s, k + 1) ELSE 0

\* H1_PATTERN  ^#\s+(.+)$  (MULTILINE) tried at position k: \s+ is greedy
\* and gives characters back until (.+) finds a character that is not a
\* newline; (.+) then runs to the end of that line.
H1Widths(s, k) ==
    {m \in 1..WhitespaceRun(s, k + 1) :
        k + 1 + m <= Len(s) /\ s[k + 1 + m] # NL}

H1MatchAt(s, k) ==
    /\ k = 1 \/ s[k - 1] = NL
    /\ s[k] = "#"
    /\ H1Widths(s, k) # {}

H1Group(s, k) ==
    LET m == CHOOSE w \in H1Widths(s, k) : \A v \in H1Widths(s, k) : v <= w
    IN  SubSeq(s, k + 1 + m, LineEnd(s, k + 1 + m) - 1)

\* MarkdownParser.extract_h1_title: the first match, stripped, or None.
extract_h1_title(s) ==
    LET found == {k \in 1..Len(s) : H1MatchAt(s, k)}
    IN  IF found = {} THEN None
        ELSE Strip(H1Group(s, CHOOSE k \in found : \A j \in found : k <= j))

(***************************************************************************)
(* Documents.                                                              *)
(***************************************************************************)
Img(alt, path) == <<"!", "[">> \o alt \o <<"]", "(">> \o path \o <<")">>
Block(body) == <<Fence, "mermaid", NL>> \o body \o <<NL, Fence>>

Fragments ==
    { Img(<<"a">>, <<"p">>),
      Img(<<"b">>, <<"p">>),
      Img(<<"a">>, <<"./", "p">>),
      Img(<<"a">>, <<"q">>),
      Img(<<"a">>, <<"u/", "p">>),
      Img(<<"a">>, <<"https://", "p">>),
      Img(<<"a">>, <<"r">>),
      <<"!", "[", "a", "]", Emoji, "(", "p", ")">>,
      Block(<<"g">>),
      Block(Img(<<"a">>, <<"p">>)),
      <<Emoji>>,
      <<"x">> }

RECURSIVE Docs(_)
Docs(n) ==
    IF n = 0 THEN {<<>>}
    ELSE LET shorter == Docs(n - 1)
         IN  shorter \cup {d \o f : d \in shorter, f \in Fragments}

(***************************************************************************)
(* Ordered dictionaries (Python dict): a sequence of [key, value] entries  *)
(* in insertion order.  Assigning to an existing key keeps its position.   *)
(***************************************************************************)
DictHas(d, k) == \E j \in 1..Len(d) : d[j].key = k
DictGet(d, k) == d[CHOOSE j \in 1..Len(d) : d[j].key = k].value
DictSet(d, k, v) ==
    IF DictHas(d, k)
    THEN [j \in 1..Len(d) |-> IF d[j].key = k THEN [key |-> k, value |-> v]
                              ELSE d[j]]
    ELSE Append(d, [key |-> k, value |-> v])

(***************************************************************************)
(* uploader.py                                                             *)
(***************************************************************************)
\* Every atom of the alphabet, for the content hash.
Atoms == <<"!", "[", "]", "(", ")", "a", "b", "p", "q", "r", "u/", "./",
           "https://", Fence, "mermaid", NL, " ", "g", "x", Emoji>>
AtomCode(c) == CHOOSE j \in 1..Len(Atoms) : Atoms[j] = c
HexDigits == <<"0", "1", "2", "3", "4", "5", "6", "7",
               "8", "9", "a", "b", "c", "d", "e", "f">>
IndexText == <<"0", "1", "2", "3", "4", "5", "6", "7", "8", "9">>

RECURSIVE Digest(_, _)
Digest(code, h) ==
    IF code = <<>> THEN h
    ELSE Digest(Tail(code), (h * 31 + AtomCode(Head(code))) % 65536)

\* hashlib.md5(code.encode()).hexdigest()[:8], as a 16-bit digest of the body
\* written in hexadecimal: a fixed function of the body alone.
Md5Hex(code) ==
    LET h == Digest(code, 7)
    IN  <<HexDigits[((h \div 4096) % 16) + 1],
          HexDigits[((h \div 256) % 16) + 1],
          HexDigits[((h \div 16) % 16) + 1],
          HexDigits[(h % 16) + 1]>>

\* WikiUploader._generate_mermaid_filename(code, index); index counts from 0.
GenerateFilenameFromBody(code, index) == <<"mermaid_">> \o Md5Hex(code)
generate_mermaid_filename(code, index) ==
    <<"mermaid_", IndexText[index + 1], "_">> \o Md5Hex(code)

\* Path components that name a directory.
DirAtoms == {"u/", ".mermaid_temp/", "d1/", "d2/"}

\* Path.name: what follows the last directory component.
Basename(path) ==
    LET dirs == {j \in 1..Len(path) : path[j] \in DirAtoms}
        last == IF dirs = {} THEN 0
                ELSE CHOOSE j \in dirs : \A h \in dirs : h <= j
    IN  SubSeq(path, last + 1, Len(path))

\* Path.parent and Path.stem of a document path  <dir> <stem> ".md".
Parent(path) == SubSeq(path, 1, Len(path) - 2)
Stem(path) == <<path[Len(path) - 1]>>

\* line 175: temp_dir = markdown_path.parent / '.mermaid_temp'
TempDir(path) == Parent(path) \o <<".mermaid_temp/">>

\* The outcomes of one run of the external converter inside convert().
ConvertOutcomes == {"ok", "nonzero_exit", "no_output", "timeout", "error"}

\* MermaidConverter.convert: success needs exit status 0 and the output file.
convert(output_dir, output_name, outcome) ==
    [success |-> outcome = "ok",
     output_path |-> IF outcome = "ok"
                     THEN output_dir \o output_name \o <<".png">>
                     ELSE <<>>]

\* Backlog's native reference form  ![image][<name>]
BacklogImageTag(name) == <<"!", "[", "image", "]", "[">> \o name \o <<"]">>

\* The page-scoped identifier the remote issues when it links attachment id.
PageScopedId(id) == id + 100

\* One pass of the replacement loops (lines 276-287, 290-298) over the
\* entries of an attachment dictionary, in insertion order.
RECURSIVE ReplaceEntries(_, _, _)
ReplaceEntries(text, entries, mapping) ==
    IF entries = <<>> THEN text
    ELSE LET e == Head(entries)
             linked == DictHas(mapping, e.value.name)
                       /\ DictGet(mapping, e.value.name) # 0
             tag == BacklogImageTag(e.value.name)
             next == IF linked /\ StrCount(text, e.key) > 0
                     THEN StrReplace(text, e.key, tag)
                     ELSE text
         IN  ReplaceEntries(next, Tail(entries), mapping)

\* The identifier of the page create_or_update_wiki returns: the one of the
\* page it found under the name, or the one of the page it created.
FoundWikiId == 1
CreatedWikiId == 2
ReturnedWikiId(outcome) ==
    IF outcome = "created" THEN CreatedWikiId
    ELSE IF outcome = "updated" THEN FoundWikiId
    ELSE 0

\* The order of the stages of upload() after the dry-run return.
StageOrderLinkFirst ==
    <<"upload_images", "upload_mermaid", "link", "page_write", "rewrite",
      "cleanup">>
StageOrderPageFirst ==
    <<"page_write", "upload_images", "upload_mermaid", "link", "rewrite",
      "cleanup">>
StageOrder ==
    <<"upload_images", "upload_mermaid", "page_write", "link", "rewrite",
      "cleanup">>
StageAfter(stage) ==
    StageOrder[1 + CHOOSE j \in 1..Len(StageOrder) : StageOrder[j] = stage]

\* A successful render is one convert() reports as such, with its output path.
RenderKeptAlways(r) == TRUE
RenderKept(r) == r.success /\ r.output_path # <<>>

\* line 253: the link call is made only for a non-empty identifier list.
NeedsLinkAlways(ids) == TRUE
NeedsLink(ids) == ids # <<>>

\* line 269: the second pass runs only when the link step mapped a name.
NeedsRewriteAlways(mapping) == TRUE
NeedsRewrite(mapping) == mapping # <<>>

\* line 152: the explicit name is used unless it is None.
GivenWhenTruthy(name) == name \notin {None, <<>>}
Given(name) == name # None

\* lines 151-157: argument, else H1 title, else the file name stem.
ResolveNameTitleFirst(name, text, path) ==
    LET h1_title == extract_h1_title(text)
    IN  IF h1_title \notin {None, <<>>} THEN h1_title
        ELSE IF Given(name) THEN name
        ELSE Stem(path)
ResolveName(name, text, path) ==
    IF Given(name) THEN name
    ELSE LET h1_title == extract_h1_title(text)
         IN  IF h1_title \notin {None, <<>>} THEN h1_title
             ELSE Stem(path)

\* line 272: the second pass starts from parser.content, the text as read.
RewriteSourceSanitized(text) == remove_emojis(text)
RewriteSource(text) == text

\* line 183: the early return of a dry run.
ReturnsEarlyNever(flag) == FALSE
ReturnsEarly(flag) == flag

\* line 178: diagrams are rendered only with blocks and the tool available.
NeedsRenderWithoutTool(blocks, available) == blocks # <<>>
NeedsRender(blocks, available) == blocks # <<>> /\ available

\* self.mermaid_converter before the first MermaidConverter is created.
NoConverter == <<>>

\* One remote call, as the call log records it.
Call(op, path, text, name, body, ids, page, ok) ==
    [op |-> op, path |-> path, text |-> text, name |-> name,
     content |-> body, ids |-> ids, page |-> page, ok |-> ok]

VARIABLES
    cli,                    \* cli.py: the frame of main()
    cv,                     \* mermaid_converter.py: a converter at work
    bc,                     \* backlog_client.py: create_or_update_wiki
    markdown_path,          \* the markdown_path argument
    wiki_name,              \* the wiki_name argument, resolved by line 157
    mermaid_converter,      \* self.mermaid_converter: its output_dir, or None
    uploads,                \* how many upload() calls this uploader has begun
    content,                \* parser.content: the document as read
    mermaid_available,      \* self.mermaid_available
    dry_run,                \* the dry_run argument
    pc,                     \* where upload() stands
    images,                 \* get_all_local_images()
    mermaid_blocks,         \* extract_mermaid_blocks()
    mermaid_images,         \* (block, image path) of the successful renders
    idx,                    \* the index of the running loop
    uploaded_by_path,       \* resolved path -> Attachment
    uploaded_attachments,   \* original_text -> Attachment
    mermaid_attachments,    \* block original_text -> Attachment
    wiki_page,              \* the page the first write returned
    all_attachment_ids,     \* the identifiers handed to the link call
    filename_to_new_attachment_id,  \* name -> page-scoped identifier
    rewritten,              \* the text after the replacement loops
    conversions,            \* result.success of each convert() call so far
    fs_dirs,                \* filesystem: the scratch directories that exist
    result,                 \* what upload() returned or raised
    calls,                  \* the remote calls of this upload() so far, in order
    remote_attachments,     \* remote: names of the uploaded attachments by id
    remote_page             \* remote: the page's content and write count

vars == <<cli, cv, bc, markdown_path, wiki_name, mermaid_converter, uploads,
          content, mermaid_available, dry_run, pc, images, mermaid_blocks,
          mermaid_images, idx, uploaded_by_path, uploaded_attachments,
          mermaid_attachments, wiki_page, all_attachment_ids,
          filename_to_new_attachment_id, rewritten, conversions, fs_dirs,
          result, calls,
          remote_attachments, remote_page>>

\* main() is not running: upload() is called directly.
NoMain == [pc |-> "none"]

\* No converter is at work outside upload().
NoConvert == [pc |-> "none"]

\* No call of the client is looked into.
NoClient == [pc |-> "none"]

NoPage == [id |-> 0, is_new |-> FALSE]
NoResult == [kind |-> "none"]

\* WikiUploader.__init__, then the entry of the first upload() with its
\* local variables not yet assigned.
Constructed ==
    /\ mermaid_available \in BOOLEAN
    /\ mermaid_converter = NoConverter
    /\ uploads = 1
    /\ fs_dirs = {}
    /\ calls = <<>>
    /\ remote_attachments = <<>>
    /\ remote_page = [content |-> <<>>, writes |-> 0]
    /\ dry_run = FALSE
    /\ pc = "start"
    /\ images = <<>>
    /\ mermaid_blocks = <<>>
    /\ mermaid_images = <<>>
    /\ idx = 0
    /\ uploaded_by_path = <<>>
    /\ uploaded_attachments = <<>>
    /\ mermaid_attachments = <<>>
    /\ wiki_page = NoPage
    /\ all_attachment_ids = <<>>
    /\ filename_to_new_attachment_id = <<>>
    /\ rewritten = <<>>
    /\ conversions = <<>>
    /\ result = NoResult

\* The Markdown files that exist, and a path at which there is none.
Documents == {<<"d1/", "doc", ".md">>, <<"d2/", "doc", ".md">>}
MissingPath == <<"d1/", "gone", ".md">>

\* line 145: markdown_path.exists()
DocumentExistsAlways(path) == TRUE
DocumentExists(path) == path \in Documents

Init ==
    /\ Constructed
    /\ cli = NoMain
    /\ cv = NoConvert
    /\ bc = NoClient
    /\ wiki_name = None
    /\ \/ /\ markdown_path = <<"d1/", "doc", ".md">>
          /\ content \in Docs(MaxFrags)
       \/ /\ markdown_path = MissingPath
          /\ content = <<>>

\* lines 143-146: there is no file at markdown_path.
NotFound ==
    /\ pc = "start"
    /\ ~DocumentExists(markdown_path)
    /\ pc' = "raised"
    /\ result' = [kind |-> "raised", by |-> "FileNotFoundError"]
    /\ UNCHANGED <<cli, cv, bc, markdown_path, wiki_name,
                   mermaid_converter, uploads>>
    /\ UNCHANGED <<content, mermaid_available, dry_run, images,
                   mermaid_blocks, mermaid_images, idx, uploaded_by_path,
                   uploaded_attachments, mermaid_attachments, wiki_page,
                   all_attachment_ids, filename_to_new_attachment_id,
                   rewritten, conversions, fs_dirs, calls,
                   remote_attachments, remote_page>>

\* The identifiers of the attachments of a dictionary.
IdsOf(d) == {d[j].value.id : j \in 1..Len(d)}

\* [a.id for a in d.values()]
IdList(d) == [j \in 1..Len(d) |-> d[j].value.id]
Range(list) == {list[j] : j \in 1..Len(list)}

\* list(set(ids)), lines 244-247: every identifier once; the order of a
\* set of small integers is the ascending one.
RECURSIVE Ascending(_)
Ascending(S) ==
    IF S = {} THEN <<>>
    ELSE LET least == CHOOSE x \in S : \A y \in S : x <= y
         IN  <<least>> \o Ascending(S \ {least})
UniqueKeepAll(list) == list
Unique(list) == Ascending(Range(list))

\* The link response, entry by entry in identifier order, folded into the
\* name -> page-scoped identifier dictionary (lines 261-263).
RECURSIVE MapResponse(_, _, _)
MapResponse(linked, names, j) ==
    IF j = 0 THEN <<>>
    ELSE LET before == MapResponse(linked, names, j - 1)
         IN  IF j \in linked THEN DictSet(before, names[j], PageScopedId(j))
             ELSE before

\* lines 143-181 and 103-107: parse the document, resolve the page name,
\* create the scratch directory and, once per uploader, the converter.
Scan ==
    /\ pc = "start"
    /\ DocumentExists(markdown_path)
    /\ dry_run' \in BOOLEAN
    /\ wiki_name' = ResolveName(wiki_name, content, markdown_path)
    /\ images' = get_all_local_images(content)
    /\ mermaid_blocks' = extract_mermaid_blocks(content)
    /\ IF NeedsRender(extract_mermaid_blocks(content), mermaid_available)
       THEN /\ fs_dirs' = fs_dirs \cup {TempDir(markdown_path)}
            /\ mermaid_converter' =
                   IF mermaid_converter = NoConverter
                   THEN TempDir(markdown_path) ELSE mermaid_converter
            /\ pc' = "convert" /\ idx' = 1
       ELSE /\ UNCHANGED <<fs_dirs, mermaid_converter>>
            /\ pc' = "dry_check" /\ idx' = 0
    /\ UNCHANGED <<cli, cv, bc, markdown_path, uploads,
                   content, mermaid_available, mermaid_images,
                   uploaded_by_path, uploaded_attachments,
                   mermaid_attachments, wiki_page, all_attachment_ids,
                   filename_to_new_attachment_id, rewritten, conversions,
                   result, calls, remote_attachments, remote_page>>

\* lines 110-122: one iteration of the loop of _convert_mermaid_blocks;
\* convert() makes its output directory first (_get_output_dir).
ConvertBlock ==
    /\ pc = "convert"
    /\ UNCHANGED <<cli, cv, bc, markdown_path, wiki_name,
                   mermaid_converter, uploads>>
    /\ \E outcome \in ConvertOutcomes :
          LET block == mermaid_blocks[idx]
              filename == generate_mermaid_filename(block.code, idx - 1)
              r == convert(mermaid_converter, filename, outcome)
          IN  /\ conversions' = Append(conversions, r.success)
              /\ fs_dirs' = fs_dirs \cup {mermaid_converter}
              /\ mermaid_images' =
                     IF RenderKept(r)
                     THEN Append(mermaid_images,
                                 [index |-> idx,
                                  original_text |-> block.original_text,
                                  path |-> r.output_path])
                     ELSE mermaid_images
    /\ IF idx = Len(mermaid_blocks)
       THEN pc' = "dry_check" /\ idx' = 0
       ELSE pc' = pc /\ idx' = idx + 1
    /\ UNCHANGED <<content, mermaid_available, dry_run, images,
                   mermaid_blocks, uploaded_by_path, uploaded_attachments,
                   mermaid_attachments, wiki_page, all_attachment_ids,
                   filename_to_new_attachment_id, rewritten,
                   result, calls, remote_attachments, remote_page>>

\* lines 183-190: the dry-run return.
DryRunReturn ==
    /\ pc = "dry_check"
    /\ UNCHANGED <<cli, cv, bc, markdown_path, wiki_name,
                   mermaid_converter, uploads>>
    /\ ReturnsEarly(dry_run)
    /\ result' = [kind |-> "dry_run",
                  wiki_name |-> wiki_name,
                  local_images |-> Len(images),
                  mermaid_images |-> Len(mermaid_images)]
    /\ pc' = "done"
    /\ UNCHANGED <<content, mermaid_available, dry_run, images,
                   mermaid_blocks, mermaid_images, idx, uploaded_by_path,
                   uploaded_attachments, mermaid_attachments, wiki_page,
                   all_attachment_ids, filename_to_new_attachment_id,
                   rewritten, conversions, fs_dirs, calls,
                   remote_attachments, remote_page>>

Proceed ==
    /\ pc = "dry_check"
    /\ UNCHANGED <<cli, cv, bc, markdown_path, wiki_name,
                   mermaid_converter, uploads>>
    /\ ~ReturnsEarly(dry_run)
    /\ pc' = StageOrder[1]
    /\ idx' = 1
    /\ UNCHANGED <<content, mermaid_available, dry_run, images,
                   mermaid_blocks, mermaid_images, uploaded_by_path,
                   uploaded_attachments, mermaid_attachments, wiki_page,
                   all_attachment_ids, filename_to_new_attachment_id,
                   rewritten, conversions, fs_dirs, result, calls,
                   remote_attachments, remote_page>>

\* lines 200-215: one iteration of the local image loop.
UploadImage ==
    /\ pc = "upload_images"
    /\ UNCHANGED <<cli, cv, bc, markdown_path, wiki_name,
                   mermaid_converter, uploads>>
    /\ idx <= Len(images)
    /\ LET ref == images[idx]
       IN  IF ~DictHas(uploaded_by_path, ref.path)
           THEN \E ok \in BOOLEAN :
                  LET att == [id |-> Len(remote_attachments) + 1,
                              name |-> Basename(ref.path)]
                  IN  /\ calls' = Append(calls,
                             Call("upload_attachment", ref.path,
                                  ref.original_text, <<>>, <<>>, <<>>, 0,
                                  ok))
                      /\ IF ok
                         THEN /\ remote_attachments' =
                                     Append(remote_attachments, att.name)
                              /\ uploaded_by_path' =
                                     DictSet(uploaded_by_path, ref.path, att)
                              /\ uploaded_attachments' =
                                     DictSet(uploaded_attachments,
                                             ref.original_text, att)
                         ELSE UNCHANGED <<remote_attachments,
                                          uploaded_by_path,
                                          uploaded_attachments>>
           ELSE /\ uploaded_attachments' =
                       DictSet(uploaded_attachments, ref.original_text,
                               DictGet(uploaded_by_path, ref.path))
                /\ UNCHANGED <<calls, remote_attachments, uploaded_by_path>>
    /\ idx' = idx + 1
    /\ UNCHANGED <<content, mermaid_available, dry_run, pc, images,
                   mermaid_blocks, mermaid_images, mermaid_attachments,
                   wiki_page, all_attachment_ids,
                   filename_to_new_attachment_id, rewritten, conversions,
                   fs_dirs, result, remote_page>>

ImagesDone ==
    /\ pc = "upload_images"
    /\ UNCHANGED <<cli, cv, bc, markdown_path, wiki_name,
                   mermaid_converter, uploads>>
    /\ idx > Len(images)
    /\ pc' = StageAfter("upload_images")
    /\ idx' = 1
    /\ UNCHANGED <<content, mermaid_available, dry_run, images,
                   mermaid_blocks, mermaid_images, uploaded_by_path,
                   uploaded_attachments, mermaid_attachments, wiki_page,
                   all_attachment_ids, filename_to_new_attachment_id,
                   rewritten, conversions, fs_dirs, result, calls,
                   remote_attachments, remote_page>>

\* lines 219-225: one iteration of the diagram image loop.
UploadMermaid ==
    /\ pc = "upload_mermaid"
    /\ UNCHANGED <<cli, cv, bc, markdown_path, wiki_name,
                   mermaid_converter, uploads>>
    /\ idx <= Len(mermaid_images)
    /\ LET item == mermaid_images[idx]
       IN  \E ok \in BOOLEAN :
              LET att == [id |-> Len(remote_attachments) + 1,
                          name |-> Basename(item.path)]
              IN  /\ calls' = Append(calls,
                         Call("upload_attachment", item.path,
                              item.original_text, <<>>, <<>>, <<>>, 0, ok))
                  /\ IF ok
                     THEN /\ remote_attachments' =
                                 Append(remote_attachments, att.name)
                          /\ mermaid_attachments' =
                                 DictSet(mermaid_attachments,
                                         item.original_text, att)
                     ELSE UNCHANGED <<remote_attachments,
                                      mermaid_attachments>>
    /\ idx' = idx + 1
    /\ UNCHANGED <<content, mermaid_available, dry_run, pc, images,
                   mermaid_blocks, mermaid_images, uploaded_by_path,
                   uploaded_attachments, wiki_page, all_attachment_ids,
                   filename_to_new_attachment_id, rewritten, conversions,
                   fs_dirs, result, remote_page>>

MermaidDone ==
    /\ pc = "upload_mermaid"
    /\ UNCHANGED <<cli, cv, bc, markdown_path, wiki_name,
                   mermaid_converter, uploads>>
    /\ idx > Len(mermaid_images)
    /\ pc' = StageAfter("upload_mermaid")
    /\ idx' = 1
    /\ UNCHANGED <<content, mermaid_available, dry_run, images,
                   mermaid_blocks, mermaid_images, uploaded_by_path,
                   uploaded_attachments, mermaid_attachments, wiki_page,
                   all_attachment_ids, filename_to_new_attachment_id,
                   rewritten, conversions, fs_dirs, result, calls,
                   remote_attachments, remote_page>>

\* lines 231-241: the first page write, with the sanitized document.
PageWrite ==
    /\ pc = "page_write"
    /\ UNCHANGED <<cli, cv, bc, markdown_path, wiki_name,
                   mermaid_converter, uploads>>
    /\ \E outcome \in {"created", "updated", "failed"} :
          LET clean_content == remove_emojis(content)
          IN  /\ calls' = Append(calls,
                     Call("create_or_update_wiki", <<>>, <<>>, wiki_name,
                          clean_content, <<>>, ReturnedWikiId(outcome),
                          outcome # "failed"))
              /\ IF outcome = "failed"
                 THEN /\ pc' = "raised"
                      /\ result' = [kind |-> "raised",
                                    by |-> "create_or_update_wiki"]
                      /\ UNCHANGED <<wiki_page, remote_page, idx>>
                 ELSE /\ wiki_page' = [id |-> ReturnedWikiId(outcome),
                                       is_new |-> outcome = "created"]
                      /\ remote_page' = [content |-> clean_content,
                                         writes |-> remote_page.writes + 1]
                      /\ pc' = StageAfter("page_write")
                      /\ idx' = 1
                      /\ UNCHANGED result
    /\ UNCHANGED <<content, mermaid_available, dry_run, images,
                   mermaid_blocks, mermaid_images, uploaded_by_path,
                   uploaded_attachments, mermaid_attachments,
                   all_attachment_ids, filename_to_new_attachment_id,
                   rewritten, conversions, fs_dirs, remote_attachments>>

\* lines 244-253: no identifier to link.
LinkSkip ==
    /\ pc = "link"
    /\ UNCHANGED <<cli, cv, bc, markdown_path, wiki_name,
                   mermaid_converter, uploads>>
    /\ LET ids == Unique(IdList(uploaded_attachments)
                          \o IdList(mermaid_attachments))
       IN  /\ ~NeedsLink(ids)
           /\ all_attachment_ids' = ids
    /\ pc' = StageAfter("link")
    /\ UNCHANGED <<content, mermaid_available, dry_run, images,
                   mermaid_blocks, mermaid_images, idx, uploaded_by_path,
                   uploaded_attachments, mermaid_attachments, wiki_page,
                   filename_to_new_attachment_id, rewritten, conversions,
                   fs_dirs, result, calls, remote_attachments, remote_page>>

\* lines 244-266: the link call; a failure is printed and absorbed.
LinkCall ==
    /\ pc = "link"
    /\ UNCHANGED <<cli, cv, bc, markdown_path, wiki_name,
                   mermaid_converter, uploads>>
    /\ LET ids == Unique(IdList(uploaded_attachments)
                          \o IdList(mermaid_attachments))
       IN  /\ NeedsLink(ids)
           /\ all_attachment_ids' = ids
           /\ \E ok \in BOOLEAN :
                 /\ calls' = Append(calls,
                        Call("attach_files_to_wiki", <<>>, <<>>, <<>>, <<>>, ids,
                             wiki_page.id, ok))
                 /\ IF ok
                    THEN \E linked \in SUBSET Range(ids) :
                            filename_to_new_attachment_id' =
                                MapResponse(linked, remote_attachments,
                                            Len(remote_attachments))
                    ELSE UNCHANGED filename_to_new_attachment_id
    /\ pc' = StageAfter("link")
    /\ UNCHANGED <<content, mermaid_available, dry_run, images,
                   mermaid_blocks, mermaid_images, idx, uploaded_by_path,
                   uploaded_attachments, mermaid_attachments, wiki_page,
                   rewritten, conversions, fs_dirs, result,
                   remote_attachments, remote_page>>

\* line 269: nothing was linked, the page keeps its first-pass content.
RewriteSkip ==
    /\ pc = "rewrite"
    /\ UNCHANGED <<cli, cv, bc, markdown_path, wiki_name,
                   mermaid_converter, uploads>>
    /\ ~NeedsRewrite(filename_to_new_attachment_id)
    /\ pc' = StageAfter("rewrite")
    /\ UNCHANGED <<content, mermaid_available, dry_run, images,
                   mermaid_blocks, mermaid_images, idx, uploaded_by_path,
                   uploaded_attachments, mermaid_attachments, wiki_page,
                   all_attachment_ids, filename_to_new_attachment_id,
                   rewritten, conversions, fs_dirs, result, calls,
                   remote_attachments, remote_page>>

\* lines 269-305: rewrite the original text, sanitize, write the page again.
RewriteAndUpdate ==
    /\ pc = "rewrite"
    /\ UNCHANGED <<cli, cv, bc, markdown_path, wiki_name,
                   mermaid_converter, uploads>>
    /\ NeedsRewrite(filename_to_new_attachment_id)
    /\ LET after_images == ReplaceEntries(RewriteSource(content),
                                          uploaded_attachments,
                                          filename_to_new_attachment_id)
           after_blocks == ReplaceEntries(after_images, mermaid_attachments,
                                          filename_to_new_attachment_id)
           sent == remove_emojis(after_blocks)
       IN  /\ rewritten' = after_blocks
           /\ \E ok \in BOOLEAN :
                 /\ calls' = Append(calls,
                        Call("update_wiki", <<>>, <<>>, <<>>, sent, <<>>,
                             wiki_page.id, ok))
                 /\ IF ok
                    THEN /\ remote_page' = [content |-> sent,
                                            writes |-> remote_page.writes + 1]
                         /\ pc' = StageAfter("rewrite")
                         /\ UNCHANGED result
                    ELSE /\ pc' = "raised"
                         /\ result' = [kind |-> "raised", by |-> "update_wiki"]
                         /\ UNCHANGED remote_page
    /\ UNCHANGED <<content, mermaid_available, dry_run, images,
                   mermaid_blocks, mermaid_images, idx, uploaded_by_path,
                   uploaded_attachments, mermaid_attachments, wiki_page,
                   all_attachment_ids, filename_to_new_attachment_id,
                   conversions, fs_dirs, remote_attachments>>

\* lines 307-329: remove the scratch directory, return the summary.
Cleanup ==
    /\ pc = "cleanup"
    /\ UNCHANGED <<cli, cv, bc, markdown_path, wiki_name,
                   mermaid_converter, uploads>>
    /\ fs_dirs' = fs_dirs \ {TempDir(markdown_path)}
    /\ result' = [kind |-> "summary",
                  wiki_id |-> wiki_page.id,
                  wiki_name |-> wiki_name,
                  is_new |-> wiki_page.is_new,
                  local_images_uploaded |-> Len(uploaded_attachments),
                  mermaid_images_uploaded |-> Len(mermaid_attachments),
                  total_attachments |-> Len(all_attachment_ids)]
    /\ pc' = "done"
    /\ UNCHANGED <<content, mermaid_available, dry_run, images,
                   mermaid_blocks, mermaid_images, idx, uploaded_by_path,
                   uploaded_attachments, mermaid_attachments, wiki_page,
                   all_attachment_ids, filename_to_new_attachment_id,
                   rewritten, conversions, calls, remote_attachments,
                   remote_page>>

Next ==
    \/ NotFound
    \/ Scan
    \/ ConvertBlock
    \/ DryRunReturn
    \/ Proceed
    \/ UploadImage
    \/ ImagesDone
    \/ UploadMermaid
    \/ MermaidDone
    \/ PageWrite
    \/ LinkSkip
    \/ LinkCall
    \/ RewriteSkip
    \/ RewriteAndUpdate
    \/ Cleanup

Spec == Init /\ [][Next]_vars

(***************************************************************************)
(* The same upload() on documents with headings, with image references of  *)
(* every external form and with an emoji inside a reference, called with   *)
(* and without an explicit page name.                                      *)
(***************************************************************************)
Heading(title) == <<"#", " ">> \o title \o <<NL>>

DetailFragments ==
    { Heading(<<"T">>),
      Heading(<<"U">>),
      Heading(<<" ">>),
      <<"#", NL>>,
      <<"#", "#", " ", "T", NL>>,
      <<"x", NL>>,
      Img(<<"a">>, <<"p">>),
      Img(<<Emoji>>, <<"q">>),
      Img(<<"a">>, <<"r">>),
      Img(<<"a">>, <<"http://", "p">>),
      Img(<<"a">>, <<"https://", "p">>),
      Img(<<"a">>, <<"//", "p">>),
      <<"!", "[", "z", "]", "(", "https://">> \o Img(<<"a">>, <<"p">>),
      Block(<<"g">>) }

DetailDocs ==
    {<<>>} \cup DetailFragments
           \cup {f \o g : f \in DetailFragments, g \in DetailFragments}

\* The wiki_name argument: absent, empty, or a name.
NameArguments == {None, <<>>, <<"n">>}

InitDetail ==
    /\ Constructed
    /\ cli = NoMain
    /\ cv = NoConvert
    /\ bc = NoClient
    /\ wiki_name \in NameArguments
    /\ \/ /\ markdown_path = <<"d1/", "doc", ".md">>
          /\ content \in DetailDocs
       \/ /\ markdown_path = MissingPath
          /\ content = <<>>

SpecDetail == InitDetail /\ [][Next]_vars

(***************************************************************************)
(* One uploader, several documents: the caller (the loop of cli.py, lines  *)
(* 254-263) calls upload() again once the previous call has returned or    *)
(* raised.  The locals of upload() start afresh; the uploader's fields,    *)
(* the filesystem and the remote store are what the earlier calls left.    *)
(***************************************************************************)
BatchPaths == {<<"d1/", "doc", ".md">>, <<"d2/", "doc", ".md">>}
BatchDocs ==
    { <<"x">>,
      Img(<<"a">>, <<"p">>),
      Block(<<"g">>),
      Img(<<"a">>, <<"p">>) \o Block(<<"g">>) }

InitBatch ==
    /\ Constructed
    /\ cli = NoMain
    /\ cv = NoConvert
    /\ bc = NoClient
    /\ wiki_name = None
    /\ \/ /\ markdown_path \in BatchPaths
          /\ content \in BatchDocs
       \/ /\ markdown_path = MissingPath
          /\ content = <<>>

NextUpload ==
    /\ pc \in {"done", "raised"}
    /\ uploads < MaxUploads
    /\ uploads' = uploads + 1
    /\ wiki_name' = None
    /\ \/ /\ markdown_path' \in BatchPaths
          /\ content' \in BatchDocs
       \/ /\ markdown_path' = MissingPath
          /\ content' = <<>>
    /\ dry_run' = FALSE
    /\ pc' = "start"
    /\ images' = <<>>
    /\ mermaid_blocks' = <<>>
    /\ mermaid_images' = <<>>
    /\ idx' = 0
    /\ uploaded_by_path' = <<>>
    /\ uploaded_attachments' = <<>>
    /\ mermaid_attachments' = <<>>
    /\ wiki_page' = NoPage
    /\ all_attachment_ids' = <<>>
    /\ filename_to_new_attachment_id' = <<>>
    /\ rewritten' = <<>>
    /\ conversions' = <<>>
    /\ result' = NoResult
    /\ calls' = <<>>
    /\ UNCHANGED <<cli, cv, bc, mermaid_available, mermaid_converter,
                   fs_dirs,
                   remote_attachments, remote_page>>

NextBatch ==
    \/ Next
    \/ NextUpload

SpecBatch == InitBatch /\ [][NextBatch]_vars

(***************************************************************************)
(* cli.py: main() in batch mode.  upload() is one step of the loop that    *)
(* either returns a result or raises.                                      *)
(***************************************************************************)
\* The Markdown files below the given directory, in ascending path order.
FileNames == <<"a.md", "b.md", "c.md">>
\* Every path of the model, in the order of Path comparison.
PathOrder ==
    <<"a.md", "b.md", "c.md", "c.txt", "d.md", "sub", "sub/e.md">>
Rank(f) == CHOOSE j \in 1..Len(PathOrder) : PathOrder[j] = f

\* What rglob() may yield: any of the files, each once, in any order.
GlobResults ==
    {<<>>} \cup
    UNION {{q \in [1..n -> {FileNames[j] : j \in 1..Len(FileNames)}] :
               \A x, y \in 1..n : x # y => q[x] # q[y]}
           : n \in 1..Len(FileNames)}

\* sorted(files), line 129.
RECURSIVE Insert(_, _)
Insert(f, sorted) ==
    IF sorted = <<>> THEN <<f>>
    ELSE IF Rank(f) <= Rank(Head(sorted)) THEN <<f>> \o sorted
    ELSE <<Head(sorted)>> \o Insert(f, Tail(sorted))
RECURSIVE Sorted(_)
SortedAsFound(files) == files
Sorted(files) ==
    IF files = <<>> THEN <<>> ELSE Insert(Head(files), Sorted(Tail(files)))

\* The keyword parameters of WikiUploader.__init__ in uploader.py.
InitParameters == {"project_key", "space_id", "api_key", "domain", "env_file"}
\* The keyword parameters of the WikiUploader that tests/test_uploader.py
\* constructs (lines 100-109): the same, and quiet.
QuietInitParameters == InitParameters \cup {"quiet"}
\* The keywords main() passes, lines 228-235.
MainKeywords ==
    {"project_key", "space_id", "api_key", "domain", "env_file", "quiet"}

\* line 274: the loop goes on after a failed file only when asked to.
GoesOnAlways(continue_on_error) == TRUE
GoesOn(continue_on_error) == continue_on_error

\* main() after parse_args: the files rglob finds, the --continue-on-error
\* flag, the WikiUploader class in use and whether credentials are set.
InitMain ==
    /\ Constructed
    /\ ~mermaid_available
    /\ markdown_path = <<>>
    /\ wiki_name = None
    /\ content = <<>>
    /\ cv = NoConvert
    /\ bc = NoClient
    /\ cli \in [pc : {"collect"},
                 found : GlobResults,
                 continue_on_error : BOOLEAN,
                 parameters : {InitParameters, QuietInitParameters},
                 configured : BOOLEAN,
                 files : {<<>>},
                 attempted : {<<>>},
                 results : {<<>>},
                 success_count : {0},
                 failed_count : {0},
                 exit_code : {-1}]

upload_vars ==
    <<markdown_path, wiki_name, mermaid_converter, uploads, content,
      mermaid_available, dry_run, pc, images, mermaid_blocks, mermaid_images,
      idx, uploaded_by_path, uploaded_attachments, mermaid_attachments,
      wiki_page, all_attachment_ids, filename_to_new_attachment_id,
      rewritten, conversions, fs_dirs, result, calls, remote_attachments,
      remote_page>>

\* lines 207-216: collect the files; none found is exit code 1.
MainCollect ==
    /\ cli.pc = "collect"
    /\ LET files == Sorted(cli.found)
       IN  cli' = IF files = <<>>
                  THEN [cli EXCEPT !.pc = "exit", !.exit_code = 1]
                  ELSE [cli EXCEPT !.pc = "construct", !.files = files]
    /\ UNCHANGED <<cv, bc, upload_vars>>

\* lines 228-235: WikiUploader(..., quiet=True).  A keyword the class does
\* not accept is a TypeError, missing credentials are a ValueError; both
\* reach the handler of line 304: exit code 1.
MainConstruct ==
    /\ cli.pc = "construct"
    /\ cli' = IF MainKeywords \subseteq cli.parameters /\ cli.configured
              THEN [cli EXCEPT !.pc = "loop"]
              ELSE [cli EXCEPT !.pc = "exit", !.exit_code = 1]
    /\ UNCHANGED <<cv, bc, upload_vars>>

\* lines 254-277: one iteration of the loop over the files.
MainUpload ==
    /\ cli.pc = "loop"
    /\ Len(cli.attempted) < Len(cli.files)
    /\ LET md_file == cli.files[Len(cli.attempted) + 1]
       IN  \E returned \in BOOLEAN :
              cli' =
                 IF returned
                 THEN [cli EXCEPT
                         !.attempted = Append(@, md_file),
                         !.results = Append(@, TRUE),
                         !.success_count = @ + 1]
                 ELSE IF GoesOn(cli.continue_on_error)
                 THEN [cli EXCEPT
                         !.attempted = Append(@, md_file),
                         !.results = Append(@, FALSE),
                         !.failed_count = @ + 1]
                 ELSE [cli EXCEPT
                         !.attempted = Append(@, md_file),
                         !.results = Append(@, FALSE),
                         !.failed_count = @ + 1,
                         !.pc = "exit",
                         !.exit_code = 1]
    /\ UNCHANGED <<cv, bc, upload_vars>>

\* lines 279-299: the summary; exit code 1 when a file failed.
MainSummary ==
    /\ cli.pc = "loop"
    /\ Len(cli.attempted) = Len(cli.files)
    /\ cli' = [cli EXCEPT !.pc = "exit",
                          !.exit_code = IF cli.failed_count > 0 THEN 1 ELSE 0]
    /\ UNCHANGED <<cv, bc, upload_vars>>

NextMain ==
    \/ MainCollect
    \/ MainConstruct
    \/ MainUpload
    \/ MainSummary

SpecMain == InitMain /\ [][NextMain]_vars
(***************************************************************************)
(* cli.py: collect_markdown_files, over a directory that may hold the      *)
(* files a.md and c.txt, a directory d.md, and a directory sub with the    *)
(* file sub/e.md.                                                          *)
(***************************************************************************)
TreePaths == {"a.md", "c.txt", "d.md", "sub", "sub/e.md"}
Directories == {"d.md", "sub"}
Trees == {t \in SUBSET TreePaths : "sub/e.md" \in t => "sub" \in t}
Patterns == {"*.md", "*"}
ExcludePatterns == {"a.md", "sub/*"}
Suffixes == {".md", ".MD", ".Md", ".txt", ""}

\* fnmatch of the last component, as glob and rglob do.
GlobMatch(f, pattern) ==
    pattern = "*" \/ f \in {"a.md", "d.md", "sub/e.md"}

\* glob yields the entries of the directory itself, rglob those below too.
TopLevel(f) == f # "sub/e.md"

\* lines 110-113: what rglob or glob yields, directories included.
Yielded(tree, recursive, pattern) ==
    {f \in tree : GlobMatch(f, pattern) /\ (recursive \/ TopLevel(f))}

\* line 121: PurePath.match, which matches from the right.
PathMatch(f, exc_pattern) ==
    \/ exc_pattern = "a.md" /\ f = "a.md"
    \/ exc_pattern = "sub/*" /\ f = "sub/e.md"

\* lines 117-126: the files that match no exclude pattern, in their order.
RECURSIVE Filtered(_, _)
Filtered(files, exclude) ==
    IF files = <<>> THEN <<>>
    ELSE (IF \E exc_pattern \in exclude : PathMatch(Head(files), exc_pattern)
          THEN <<>> ELSE <<Head(files)>>)
         \o Filtered(Tail(files), exclude)

\* line 104: path.suffix.lower()
Lower(suffix) == IF suffix \in {".MD", ".Md"} THEN ".md" ELSE suffix

Orders(S) ==
    {q \in [1..Cardinality(S) -> S] :
        \A x, y \in 1..Cardinality(S) : x # y => q[x] # q[y]}

\* collect_markdown_files(path, recursive, pattern, exclude) is entered:
\* path is a file with some suffix, a directory, or nothing.
InitCollect ==
    /\ Constructed
    /\ ~mermaid_available
    /\ markdown_path = <<>>
    /\ wiki_name = None
    /\ content = <<>>
    /\ cv = NoConvert
    /\ bc = NoClient
    /\ cli \in [pc : {"collect_files"},
                 path : {"file", "dir", "none"},
                 suffix : Suffixes,
                 tree : Trees,
                 recursive : BOOLEAN,
                 pattern : Patterns,
                 exclude : SUBSET ExcludePatterns,
                 files : {<<>>},
                 returned : {<<>>}]
    /\ cli.path # "file" => cli.suffix = ""
    /\ cli.path # "dir" =>
          /\ cli.tree = {}
          /\ cli.recursive
          /\ cli.pattern = "*.md"
          /\ cli.exclude = {}

\* lines 102-106: a single file is returned when its suffix is .md.
CollectFile ==
    /\ cli.pc = "collect_files"
    /\ cli.path = "file"
    /\ cli' = [cli EXCEPT
                  !.pc = "returned",
                  !.returned = IF Lower(cli.suffix) = ".md"
                               THEN <<"path">> ELSE <<>>]
    /\ UNCHANGED <<cv, bc, upload_vars>>

\* lines 108-113: the directory is searched, in the order of the system.
CollectGlob ==
    /\ cli.pc = "collect_files"
    /\ cli.path = "dir"
    /\ \E files \in Orders(Yielded(cli.tree, cli.recursive, cli.pattern)) :
          cli' = [cli EXCEPT !.pc = "exclude", !.files = files]
    /\ UNCHANGED <<cv, bc, upload_vars>>

\* lines 115-126: the exclusions, when there are any.
CollectExclude ==
    /\ cli.pc = "exclude"
    /\ cli' = [cli EXCEPT
                  !.pc = "sort",
                  !.files = IF cli.exclude # {}
                            THEN Filtered(cli.files, cli.exclude)
                            ELSE cli.files]
    /\ UNCHANGED <<cv, bc, upload_vars>>

\* lines 128-129: return sorted(files)
CollectSort ==
    /\ cli.pc = "sort"
    /\ cli' = [cli EXCEPT !.pc = "returned", !.returned = Sorted(cli.files)]
    /\ UNCHANGED <<cv, bc, upload_vars>>

\* line 131: neither a file nor a directory.
CollectNothing ==
    /\ cli.pc = "collect_files"
    /\ cli.path = "none"
    /\ cli' = [cli EXCEPT !.pc = "returned", !.returned = <<>>]
    /\ UNCHANGED <<cv, bc, upload_vars>>

NextCollect ==
    \/ CollectFile
    \/ CollectGlob
    \/ CollectExclude
    \/ CollectSort
    \/ CollectNothing

SpecCollect == InitCollect /\ [][NextCollect]_vars

(***************************************************************************)
(* cli.py: ProgressSpinner and the batch loop of main() that drives it.    *)
(* The main thread and the spinner threads share the fields of the one     *)
(* ProgressSpinner object; each thread is at the test of its while loop    *)
(* ("check"), inside the loop body ("body") or has returned ("dead").      *)
(***************************************************************************)
MaxFiles == 2

\* line 15: SPINNER_FRAMES, eight frames.
SPINNER_FRAMES == <<"f1", "f2", "f3", "f4", "f5", "f6", "f7", "f8">>

\* line 29: the default width of the progress bar; the tests ask for 10.
DefaultWidth == 20
Widths == {10, DefaultWidth}

\* str * n: n copies of a cell, none for n <= 0.
Cells(cell, n) == [j \in 1..n |-> cell]

\* lines 29-34: ProgressSpinner._get_progress_bar(width).
get_progress_bar(total, current, width) ==
    IF total = 0 THEN Cells("EMPTY", width)
    ELSE LET filled == (width * current) \div total
         IN  Cells("FULL", filled) \o Cells("EMPTY", width - filled)

\* lines 36-40: ProgressSpinner._get_percentage().
get_percentage(total, current) ==
    IF total = 0 THEN 0 ELSE (100 * current) \div total

\* line 67: self.current += 1
AdvanceByTwo(current) == current + 2
Advance(current) == current + 1

\* lines 46-50, 68-73: the status line written to stdout.
Status(by, total, current, width, file) ==
    [by |-> by,
     percentage |-> get_percentage(total, current),
     bar |-> get_progress_bar(total, current, width),
     width |-> width,
     current |-> current,
     file |-> file]
NoStatus ==
    [by |-> "none", percentage |-> 0, bar |-> <<>>, width |-> 0,
     current |-> 0, file |-> 0]

\* line 66: join(timeout=0.2) returns when the thread has ended or when the
\* timeout has passed, whichever comes first.
JoinReturns(thread, timed_out) == thread = "dead" \/ timed_out

\* lines 19-25 and 252: ProgressSpinner(total) as main() or a test builds it.
InitSpinner ==
    /\ Constructed
    /\ ~mermaid_available
    /\ markdown_path = <<>>
    /\ wiki_name = None
    /\ content = <<>>
    /\ cv = NoConvert
    /\ bc = NoClient
    /\ cli \in [pc : {"loop"},
                 total : 0..MaxFiles,
                 continue_on_error : BOOLEAN,
                 started : {0},
                 success : {TRUE},
                 current : {0},
                 current_file : {0},
                 spinning : {FALSE},
                 spinner_thread : {0},
                 frame_index : {0},
                 threads : {<<>>},
                 shown : {NoStatus}]

\* lines 254-256, 56-60: the loop takes the next file and calls start().
SpinnerStart ==
    /\ cli.pc = "loop"
    /\ cli.started < cli.total
    /\ cli' = [cli EXCEPT !.pc = "upload",
                          !.started = @ + 1,
                          !.current_file = cli.started + 1,
                          !.spinning = TRUE,
                          !.threads = Append(@, "check"),
                          !.spinner_thread = Len(cli.threads) + 1]
    /\ UNCHANGED <<cv, bc, upload_vars>>

\* lines 258-267: uploader.upload() returns or raises.
SpinnerUpload ==
    /\ cli.pc = "upload"
    /\ \E returned \in BOOLEAN :
          cli' = [cli EXCEPT !.pc = "stop", !.success = returned]
    /\ UNCHANGED <<cv, bc, upload_vars>>

\* line 64: stop() clears the flag.
SpinnerStopClear ==
    /\ cli.pc = "stop"
    /\ cli' = [cli EXCEPT !.pc = "join", !.spinning = FALSE]
    /\ UNCHANGED <<cv, bc, upload_vars>>

\* lines 65-74 and 268-277: stop() joins for at most 0.2 s, counts the file
\* and writes its status; the loop goes on or main() aborts.
SpinnerStopJoin ==
    /\ cli.pc = "join"
    /\ \E timed_out \in BOOLEAN :
          cli.spinner_thread # 0 =>
             JoinReturns(cli.threads[cli.spinner_thread], timed_out)
    /\ cli' = [cli EXCEPT
                  !.pc = IF cli.success \/ cli.continue_on_error
                         THEN "loop" ELSE "abort",
                  !.current = Advance(@),
                  !.shown = Status("stop", cli.total, Advance(cli.current),
                                   DefaultWidth, cli.current_file)]
    /\ UNCHANGED <<cv, bc, upload_vars>>

\* lines 76-79, 275 and 280: finish() after the loop or before the abort.
SpinnerFinish ==
    /\ \/ cli.pc = "loop" /\ cli.started = cli.total
       \/ cli.pc = "abort"
    /\ cli' = [cli EXCEPT !.pc = "finished"]
    /\ UNCHANGED <<cv, bc, upload_vars>>

\* line 59 (daemon=True): the process ends and takes its daemon threads along.
SpinnerExit ==
    /\ cli.pc = "finished"
    /\ cli' = [cli EXCEPT !.pc = "exited",
                          !.threads = [t \in 1..Len(@) |-> "dead"]]
    /\ UNCHANGED <<cv, bc, upload_vars>>

\* tests/test_cli.py: _get_percentage() and _get_progress_bar(width) called
\* on the object between two files.
SpinnerQuery ==
    /\ cli.pc = "loop"
    /\ \E width \in Widths :
          cli' = [cli EXCEPT
                     !.shown = Status("query", cli.total, cli.current, width,
                                      cli.current_file)]
    /\ UNCHANGED <<cv, bc, upload_vars>>

\* line 44: while self.spinning
ThreadCheck(t) ==
    /\ cli.pc \in {"loop", "upload", "stop", "join", "abort", "finished"}
    /\ t <= Len(cli.threads)
    /\ cli.threads[t] = "check"
    /\ cli' = [cli EXCEPT !.threads[t] = IF cli.spinning THEN "body"
                                          ELSE "dead"]
    /\ UNCHANGED <<cv, bc, upload_vars>>

\* lines 45-53: one frame is written, then the thread sleeps 0.1 s.  Only
\* frame_index % len(SPINNER_FRAMES) is ever read, and that is what is kept.
ThreadBody(t) ==
    /\ cli.pc \in {"loop", "upload", "stop", "join", "abort", "finished"}
    /\ t <= Len(cli.threads)
    /\ cli.threads[t] = "body"
    /\ cli' = [cli EXCEPT
                  !.threads[t] = "check",
                  !.frame_index = (@ + 1) % Len(SPINNER_FRAMES),
                  !.shown = Status(SPINNER_FRAMES[cli.frame_index + 1],
                                   cli.total, cli.current, DefaultWidth,
                                   cli.current_file)]
    /\ UNCHANGED <<cv, bc, upload_vars>>

NextSpinner ==
    \/ SpinnerStart
    \/ SpinnerUpload
    \/ SpinnerStopClear
    \/ SpinnerStopJoin
    \/ SpinnerFinish
    \/ SpinnerExit
    \/ SpinnerQuery
    \/ \E t \in 1..MaxFiles : ThreadCheck(t)
    \/ \E t \in 1..MaxFiles : ThreadBody(t)

SpecSpinner == InitSpinner /\ [][NextSpinner]_vars

\* The main thread always reaches its next statement (upload() returns or
\* raises), and the scheduler runs every thread that can run.
SpecSpinnerFair ==
    /\ SpecSpinner
    /\ WF_vars(SpinnerStart)
    /\ WF_vars(SpinnerUpload)
    /\ WF_vars(SpinnerStopClear)
    /\ WF_vars(SpinnerStopJoin)
    /\ WF_vars(SpinnerFinish)
    /\ WF_vars(SpinnerExit)
    /\ \A t \in 1..MaxFiles : WF_vars(ThreadCheck(t)) /\ WF_vars(ThreadBody(t))

(***************************************************************************)
(* mermaid_converter.py: MermaidConverter.convert_multiple and convert,    *)
(* step by step, for a converter made with an output directory.            *)
(***************************************************************************)
OutputNames == {<<"n1">>, <<"n2">>}
OutputDir == <<"out/">>

\* The lists convert_multiple is called with: the output names, in order.
CodeLists ==
    {<<n>> : n \in OutputNames} \cup
    {<<n, m>> : n \in OutputNames, m \in OutputNames}

\* lines 101-118: a non-zero exit, then a missing output file, are failures.
ClassifyByExitOnly(returncode, output_exists) ==
    IF returncode # 0 THEN "nonzero_exit" ELSE "ok"
Classify(returncode, output_exists) ==
    IF returncode # 0 THEN "nonzero_exit"
    ELSE IF ~output_exists THEN "no_output"
    ELSE "ok"

\* convert_multiple(codes) is entered; output files of earlier runs may be
\* lying in the output directory.
InitConvert ==
    /\ Constructed
    /\ ~mermaid_available
    /\ markdown_path = <<>>
    /\ wiki_name = None
    /\ content = <<>>
    /\ cli = NoMain
    /\ bc = NoClient
    /\ cv \in [pc : {"next"},
                codes : CodeLists,
                results : {<<>>},
                runs : {<<>>},
                output_name : {<<>>},
                input_files : SUBSET OutputNames,
                output_files : SUBSET OutputNames,
                returncode : {-1},
                outcome : {"none"}]

\* line 157: the loop goes on while a pair is left, whatever the results.
HasNextUntilFailure(results, codes) ==
    /\ Len(results) < Len(codes)
    /\ IF results = <<>> THEN TRUE ELSE results[Len(results)].success
HasNext(results, codes) == Len(results) < Len(codes)

\* lines 134-135: the input file is removed if it is there.
UnlinksOnSuccess(input_exists, outcome) == input_exists /\ outcome = "ok"
Unlinks(input_exists, outcome) == input_exists

\* lines 157-159: the loop of convert_multiple takes the next pair.
ConvertNext ==
    /\ cv.pc = "next"
    /\ HasNext(cv.results, cv.codes)
    /\ cv' = [cv EXCEPT !.pc = "enter",
                        !.output_name = cv.codes[Len(cv.results) + 1],
                        !.returncode = -1,
                        !.outcome = "none"]
    /\ UNCHANGED <<cli, bc, upload_vars>>

\* lines 75-79: _get_output_dir() makes the directory; a failing mkdir is
\* raised to the caller, the try block is not entered yet.
ConvertEnter ==
    /\ cv.pc = "enter"
    /\ \E made \in BOOLEAN :
          cv' = IF made THEN [cv EXCEPT !.pc = "write"]
                ELSE [cv EXCEPT !.pc = "raised"]
    /\ UNCHANGED <<cli, bc, upload_vars>>

\* line 83: write the input file; an exception is a failure result.
ConvertWrite ==
    /\ cv.pc = "write"
    /\ \E written \in BOOLEAN :
          cv' = IF written
                THEN [cv EXCEPT !.pc = "run",
                                !.input_files = @ \cup {cv.output_name}]
                ELSE [cv EXCEPT !.pc = "finally", !.outcome = "error"]
    /\ UNCHANGED <<cli, bc, upload_vars>>

\* lines 94-131: run mmdc.  It exits with a status, or the 60 s timeout
\* expires, or it cannot be started; it may have written the output file
\* in each case.  Then the status and the output file are looked at.
ConvertRun ==
    /\ cv.pc = "run"
    /\ \E ended \in {"exit_0", "exit_1", "timeout", "error"},
          produced \in BOOLEAN :
          LET files == IF produced
                       THEN cv.output_files \cup {cv.output_name}
                       ELSE cv.output_files
              returncode == CASE ended = "exit_0" -> 0
                              [] ended = "exit_1" -> 1
                              [] OTHER -> -1
              outcome == IF ended \in {"timeout", "error"} THEN ended
                         ELSE Classify(returncode,
                                       cv.output_name \in files)
          IN  cv' = [cv EXCEPT !.pc = "finally",
                               !.output_files = files,
                               !.returncode = returncode,
                               !.outcome = outcome]
    /\ UNCHANGED <<cli, bc, upload_vars>>

\* lines 132-135, then the return: the input file is removed if it is
\* there and the result goes to the list of convert_multiple.  An unlink
\* that fails raises out of the finally block in place of the return.
ConvertFinally ==
    /\ cv.pc = "finally"
    /\ \E removed \in BOOLEAN :
          LET unlinks == Unlinks(cv.output_name \in cv.input_files,
                                 cv.outcome)
              files == IF unlinks THEN cv.input_files \ {cv.output_name}
                       ELSE cv.input_files
          IN  IF unlinks /\ ~removed
              THEN cv' = [cv EXCEPT !.pc = "raised"]
              ELSE cv' = [cv EXCEPT
                     !.pc = "next",
                     !.input_files = files,
                     !.results = Append(@, convert(OutputDir,
                                                   cv.output_name,
                                                   cv.outcome)),
                     !.runs = Append(@,
                         [name |-> cv.output_name,
                          outcome |-> cv.outcome,
                          returncode |-> cv.returncode,
                          output_exists |->
                              cv.output_name \in cv.output_files,
                          input_exists |-> cv.output_name \in files])]
    /\ UNCHANGED <<cli, bc, upload_vars>>

\* line 160: the list of results is returned.
ConvertReturn ==
    /\ cv.pc = "next"
    /\ ~HasNext(cv.results, cv.codes)
    /\ cv' = [cv EXCEPT !.pc = "returned"]
    /\ UNCHANGED <<cli, bc, upload_vars>>

NextConvert ==
    \/ ConvertNext
    \/ ConvertEnter
    \/ ConvertWrite
    \/ ConvertRun
    \/ ConvertFinally
    \/ ConvertReturn

SpecConvert == InitConvert /\ [][NextConvert]_vars

(***************************************************************************)
(* backlog_client.py: BacklogClient.create_or_update_wiki with             *)
(* find_wiki_by_name, request by request.  A request that is not answered  *)
(* with success raises out of the call (_request, lines 154-161).          *)
(***************************************************************************)
PageNames == {<<"T">>, <<"t">>, <<"U">>}
MaxPages == 2
ProjectId == 7
\* project_id_or_key: a key (str) or the number of the project (int)
ProjectKey == [key |-> <<"PRJ">>, id |-> 0]
ProjectNumber == [key |-> <<>>, id |-> ProjectId]
NewWikiId == 9

\* What GET /wikis answers: pages with the ids 1, 2, .. and their names.
WikiLists ==
    UNION {[1..n -> PageNames] : n \in 0..MaxPages}

\* line 257: the names are compared with ==.
FoldCase(name) ==
    IF name = <<"t">> THEN <<"T">> ELSE name
NameMatchesAnyCase(listed, name) == FoldCase(listed) = FoldCase(name)
NameMatches(listed, name) == listed = name

\* lines 256-259: the id of the first listed page of that name, 0 if none.
FirstMatch(wiki_list, name) ==
    LET hits == {i \in 1..Len(wiki_list) : NameMatches(wiki_list[i], name)}
    IN  IF hits = {} THEN 0
        ELSE CHOOSE i \in hits : \A j \in hits : i <= j

\* line 386: isinstance(project_id_or_key, str)
IsKey(project) == project.key # <<>>

\* A request: its method and path, and the key or the id it names.
Request(method, path, key, id) ==
    [method |-> method, path |-> path, key |-> key, id |-> id]

InitClient ==
    /\ Constructed
    /\ ~mermaid_available
    /\ markdown_path = <<>>
    /\ wiki_name = None
    /\ content = <<>>
    /\ cli = NoMain
    /\ cv = NoConvert
    /\ bc \in [pc : {"list"},
                project_id_or_key : {ProjectKey, ProjectNumber},
                name : {<<"T">>},
                wikis : WikiLists,
                requests : {<<>>},
                existing : {0},
                project_id : {0},
                page : {0},
                is_new : {FALSE}]

\* line 256: get_wiki_list
ClientList ==
    /\ bc.pc = "list"
    /\ \E ok \in BOOLEAN :
          LET sent == Append(bc.requests,
                             Request("GET", "/wikis",
                                     bc.project_id_or_key.key,
                                     bc.project_id_or_key.id))
              found == FirstMatch(bc.wikis, bc.name)
          IN  bc' = [bc EXCEPT
                       !.requests = sent,
                       !.pc = IF ~ok THEN "raised"
                              ELSE IF found # 0 THEN "get" ELSE "project"]
    /\ UNCHANGED <<cli, cv, upload_vars>>

\* line 258: get_wiki of the first page of that name
ClientGet ==
    /\ bc.pc = "get"
    /\ \E ok \in BOOLEAN :
          LET found == FirstMatch(bc.wikis, bc.name)
          IN  bc' = [bc EXCEPT
                       !.requests = Append(@, Request("GET", "/wikis/id",
                                                      <<>>, found)),
                       !.existing = IF ok THEN found ELSE 0,
                       !.pc = IF ok THEN "update" ELSE "raised"]
    /\ UNCHANGED <<cli, cv, upload_vars>>

\* lines 376-383: update_wiki of the page found, and the return
ClientUpdate ==
    /\ bc.pc = "update"
    /\ \E ok \in BOOLEAN :
          bc' = [bc EXCEPT
                   !.requests = Append(@, Request("PATCH", "/wikis/id",
                                                  <<>>, bc.existing)),
                   !.page = IF ok THEN bc.existing ELSE 0,
                   !.is_new = FALSE,
                   !.pc = IF ok THEN "returned" ELSE "raised"]
    /\ UNCHANGED <<cli, cv, upload_vars>>

\* lines 385-392: the project id is asked for when a key was given
ClientProject ==
    /\ bc.pc = "project"
    /\ IF IsKey(bc.project_id_or_key)
       THEN \E ok \in BOOLEAN :
              bc' = [bc EXCEPT
                       !.requests = Append(@, Request("GET", "/projects/key",
                                              bc.project_id_or_key.key, 0)),
                       !.project_id = IF ok THEN ProjectId ELSE 0,
                       !.pc = IF ok THEN "create" ELSE "raised"]
       ELSE bc' = [bc EXCEPT !.project_id = bc.project_id_or_key.id,
                             !.pc = "create"]
    /\ UNCHANGED <<cli, cv, upload_vars>>

\* lines 394-400: create_wiki, and the return
ClientCreate ==
    /\ bc.pc = "create"
    /\ \E ok \in BOOLEAN :
          bc' = [bc EXCEPT
                   !.requests = Append(@, Request("POST", "/wikis",
                                                  <<>>, bc.project_id)),
                   !.page = IF ok THEN NewWikiId ELSE 0,
                   !.is_new = ok,
                   !.pc = IF ok THEN "returned" ELSE "raised"]
    /\ UNCHANGED <<cli, cv, upload_vars>>

NextClient ==
    \/ ClientList
    \/ ClientGet
    \/ ClientUpdate
    \/ ClientProject
    \/ ClientCreate

SpecClient == InitClient /\ [][NextClient]_vars

(***************************************************************************)
(* Observations used by the properties.                                    *)
(***************************************************************************)
CallsOf(op) == {k \in 1..Len(calls) : calls[k].op = op}
UploadCalls == CallsOf("upload_attachment")
UploadCallsFor(path) == {k \in UploadCalls : calls[k].path = path}
Returned == result.kind = "summary"
FirstWriteDone ==
    \E k \in CallsOf("create_or_update_wiki") : calls[k].ok
SecondWriteDone == \E k \in CallsOf("update_wiki") : calls[k].ok
LinkFailed == \E k \in CallsOf("attach_files_to_wiki") : ~calls[k].ok
Linked(name) ==
    /\ DictHas(filename_to_new_attachment_id, name)
    /\ DictGet(filename_to_new_attachment_id, name) # 0
Entries(d) == {d[j] : j \in 1..Len(d)}
HasEmoji(text) == \E j \in 1..Len(text) : text[j] = Emoji

(***************************************************************************)
(* C1: within one upload() a local image path referenced N >= 1 times      *)
(* causes exactly one upload_attachment call for that resolved path,       *)
(* whatever the outcome of the calls, and every reference to the path      *)
(* reuses the single Attachment.                                           *)
(***************************************************************************)
C1_OneUploadCallPerPath ==
    \A j \in 1..Len(images) :
       /\ Cardinality(UploadCallsFor(images[j].path)) <= 1
       /\ Returned =>
             /\ Cardinality(UploadCallsFor(images[j].path)) = 1
             /\ DictHas(uploaded_by_path, images[j].path) =>
                   /\ DictHas(uploaded_attachments, images[j].original_text)
                   /\ DictGet(uploaded_attachments, images[j].original_text)
                        = DictGet(uploaded_by_path, images[j].path)

(***************************************************************************)
(* C2 as stated: the content sent in the second page write contains no     *)
(* literal occurrence of the matched text of any image reference whose     *)
(* attachment was uploaded and linked.                                     *)
(***************************************************************************)
C2_SentContentHasNoMatchedText ==
    \A k \in CallsOf("update_wiki") :
       \A e \in Entries(uploaded_attachments) :
          Linked(e.value.name) => ~Occurs(e.key, calls[k].content)

(***************************************************************************)
(* C2 amended: after the replacement loops, before the final emoji strip,  *)
(* the rewritten text contains no literal occurrence of the matched text   *)
(* of any image reference whose attachment was uploaded and linked (every  *)
(* occurrence is replaced, not only the first); so the sent content        *)
(* contains none either when the document holds no emoji character.        *)
(***************************************************************************)
C2_RewrittenTextHasNoMatchedText ==
    \A k \in CallsOf("update_wiki") :
       \A e \in Entries(uploaded_attachments) :
          Linked(e.value.name) =>
             /\ ~Occurs(e.key, rewritten)
             /\ ~HasEmoji(content) => ~Occurs(e.key, calls[k].content)

C2_Witness ==
    /\ SecondWriteDone
    /\ \E e \in Entries(uploaded_attachments) :
          /\ Linked(e.value.name)
          /\ StrCount(content, e.key) >= 2

(***************************************************************************)
(* C3: for a document with zero local images and zero diagram blocks a     *)
(* non-dry-run upload() performs exactly one page write, the               *)
(* create-or-update, and no upload_attachment call, no link call and no    *)
(* second update_page call.                                                *)
(***************************************************************************)
C3_PlainDocumentOneWrite ==
    (get_all_local_images(content) = <<>>
        /\ extract_mermaid_blocks(content) = <<>>) =>
       /\ UploadCalls = {}
       /\ CallsOf("attach_files_to_wiki") = {}
       /\ CallsOf("update_wiki") = {}
       /\ Returned =>
             /\ Len(calls) = 1
             /\ calls[1].op = "create_or_update_wiki"
             /\ remote_page.writes = 1

C3_Witness ==
    /\ Returned
    /\ content # <<>>
    /\ get_all_local_images(content) = <<>>
    /\ extract_mermaid_blocks(content) = <<>>

(***************************************************************************)
(* C4 as stated: the first page write happens before any upload_attachment *)
(* call.                                                                   *)
(***************************************************************************)
C4_PageWriteBeforeUploads ==
    \A k \in UploadCalls :
       \E j \in CallsOf("create_or_update_wiki") : j < k

(***************************************************************************)
(* C4 amended: the first page write happens before the link call and       *)
(* before the second page write, and after every upload_attachment call:   *)
(* the attachments are uploaded while the page has not yet been created    *)
(* or found.                                                               *)
(***************************************************************************)
C4_UploadsThenPageThenLink ==
    /\ \A k \in UploadCalls :
          \A j \in CallsOf("create_or_update_wiki") : k < j
    /\ \A k \in CallsOf("attach_files_to_wiki") \cup CallsOf("update_wiki") :
          \E j \in CallsOf("create_or_update_wiki") : j < k /\ calls[j].ok

C4_Witness ==
    /\ Returned
    /\ UploadCalls # {}
    /\ CallsOf("attach_files_to_wiki") # {}

(***************************************************************************)
(* C5: once the first page write has succeeded, upload() never raises.     *)
(***************************************************************************)
C5_NoRaiseAfterFirstWrite == FirstWriteDone => pc # "raised"

(***************************************************************************)
(* C6: if the link call fails, upload() performs neither the rewrite nor   *)
(* the second page write, the page keeps its first-pass content, and       *)
(* upload() does not raise but goes on to return its summary.              *)
(***************************************************************************)
C6_LinkFailureKeepsFirstPass ==
    LinkFailed =>
       /\ CallsOf("update_wiki") = {}
       /\ rewritten = <<>>
       /\ remote_page.writes = 1
       /\ remote_page.content = remove_emojis(content)
       /\ pc \in {"rewrite", "cleanup", "done"}
       /\ pc = "done" => Returned

C6_Witness == Returned /\ LinkFailed

(***************************************************************************)
(* C7: a failing upload_attachment call for one image or diagram does not  *)
(* abort the pass: the remaining items are still uploaded, the failed      *)
(* item's matched text is left unchanged in the final content, and no      *)
(* attachment of the failed call is in the link call.                      *)
(***************************************************************************)
C7_FailedUploadLeavesTextUnchanged ==
    Returned =>
       \A k \in UploadCalls :
          ~calls[k].ok =>
             /\ \A j \in 1..Len(images) : UploadCallsFor(images[j].path) # {}
             /\ \A j \in 1..Len(mermaid_images) :
                   UploadCallsFor(mermaid_images[j].path) # {}
             /\ Occurs(remove_emojis(calls[k].text), remote_page.content)
             /\ Len(all_attachment_ids) <=
                   Cardinality({j \in UploadCalls : calls[j].ok})

(***************************************************************************)
(* C8: a diagram block that is rendered, uploaded and linked has its       *)
(* fenced text removed from the final page content and replaced by an      *)
(* embed tag naming the uploaded file, in every document containing it.    *)
(***************************************************************************)
C8_LinkedBlockIsReplaced ==
    SecondWriteDone =>
       \A e \in Entries(mermaid_attachments) :
          Linked(e.value.name) =>
             /\ ~Occurs(remove_emojis(e.key), remote_page.content)
             /\ Occurs(BacklogImageTag(e.value.name), remote_page.content)

(***************************************************************************)
(* C9: a recorded matched substring is rewritten if and only if the link   *)
(* response holds an entry with its attachment's name, and the replacement *)
(* is exactly the tag ![image][<name>].                                    *)
(***************************************************************************)
C9_RewrittenIffLinked ==
    SecondWriteDone =>
       \A e \in Entries(uploaded_attachments) \cup Entries(mermaid_attachments) :
          Linked(e.value.name) <=>
             /\ Occurs(BacklogImageTag(e.value.name), remote_page.content)
             /\ ~Occurs(e.key, rewritten)

(***************************************************************************)
(* C10: a diagram whose render fails never fails upload(): it is kept out  *)
(* of the uploaded and rewritten set (no upload call for its image, no tag *)
(* naming it in the page), while every other diagram is still rendered and *)
(* uploaded and every local image is still processed.                      *)
(***************************************************************************)
RenderPath(k) ==
    TempDir(markdown_path)
        \o generate_mermaid_filename(mermaid_blocks[k].code, k - 1)
        \o <<".png">>

C10_FailedRenderIsOmitted ==
    /\ pc = "convert" => result = NoResult
    /\ pc \notin {"start", "convert"} /\ TempDir(markdown_path) \in fs_dirs =>
          Len(conversions) = Len(mermaid_blocks)
    /\ \A k \in 1..Len(conversions) :
          IF conversions[k]
          THEN /\ \E j \in 1..Len(mermaid_images) :
                     /\ mermaid_images[j].index = k
                     /\ mermaid_images[j].path = RenderPath(k)
               /\ Returned => UploadCallsFor(RenderPath(k)) # {}
          ELSE /\ \A j \in 1..Len(mermaid_images) :
                     mermaid_images[j].index # k
               /\ UploadCallsFor(RenderPath(k)) = {}
               /\ UploadCallsFor(<<>>) = {}
               /\ ~Occurs(BacklogImageTag(Basename(RenderPath(k))),
                          remote_page.content)
    /\ (Returned /\ \E k \in 1..Len(conversions) : ~conversions[k]) =>
          \A j \in 1..Len(images) : UploadCallsFor(images[j].path) # {}

C10_Witness ==
    /\ Returned
    /\ \E k \in 1..Len(conversions) : ~conversions[k]
    /\ \E k \in 1..Len(conversions) :
          /\ conversions[k]
          /\ \E j \in UploadCallsFor(RenderPath(k)) : calls[j].ok
    /\ \E j \in 1..Len(images) :
          \E c \in UploadCallsFor(images[j].path) : calls[c].ok
(***************************************************************************)
(* C11: with dry_run set, upload() makes no remote call at all (no         *)
(* upload_attachment, no create-or-update, no link, no update), the remote *)
(* store is left as it was, and what it returns holds only the page name,  *)
(* the number of local images found and the number of diagrams rendered.   *)
(***************************************************************************)
C11_DryRunMakesNoRemoteCall ==
    dry_run =>
       /\ calls = <<>>
       /\ remote_attachments = <<>>
       /\ remote_page.writes = 0
       /\ pc \in {"convert", "dry_check", "done"}
       /\ pc = "done" =>
             /\ DOMAIN result =
                    {"kind", "wiki_name", "local_images", "mermaid_images"}
             /\ result.kind = "dry_run"
             /\ result.wiki_name = wiki_name
             /\ result.local_images = Len(images)
             /\ result.mermaid_images =
                    Cardinality({k \in 1..Len(conversions) : conversions[k]})

C11_Witness ==
    /\ pc = "done"
    /\ result.kind = "dry_run"
    /\ result.local_images >= 1
    /\ result.mermaid_images >= 1

(***************************************************************************)
(* C12: when the renderer was reported unavailable at construction, no     *)
(* upload() of that uploader, the first or a later one, attempts a render, *)
(* creates a converter or creates a scratch directory; and, whether the    *)
(* renderer is available or not, every local image is put through the      *)
(* upload loop, every uploaded image is handed to the link call, and every *)
(* linked image reference is replaced in the text of the second write.     *)
(***************************************************************************)
C12_NoRenderWithoutTool ==
    /\ ~mermaid_available =>
          /\ conversions = <<>>
          /\ mermaid_images = <<>>
          /\ mermaid_attachments = <<>>
          /\ mermaid_converter = NoConverter
          /\ fs_dirs = {}
          /\ pc # "convert"
    /\ pc \in {"upload_mermaid", "page_write", "link", "rewrite", "cleanup"}
          => \A j \in 1..Len(images) :
                \/ DictHas(uploaded_attachments, images[j].original_text)
                \/ \E k \in UploadCallsFor(images[j].path) : ~calls[k].ok
    /\ \A k \in CallsOf("attach_files_to_wiki") :
          IdsOf(uploaded_attachments) \subseteq Range(calls[k].ids)
    /\ SecondWriteDone =>
          \A e \in Entries(uploaded_attachments) :
             Linked(e.value.name) => ~Occurs(e.key, rewritten)

C12_Witness ==
    /\ ~mermaid_available
    /\ uploads = 2
    /\ mermaid_blocks # <<>>
    /\ Returned
    /\ SecondWriteDone
    /\ Occurs(BacklogImageTag(<<"p">>), remote_page.content)

(***************************************************************************)
(* C13: whenever upload() has returned a result, by the dry-run return or  *)
(* by the final return, the scratch directory of that document             *)
(* (.mermaid_temp next to it) does not exist.                              *)
(***************************************************************************)
C13_ScratchDirRemovedOnReturn ==
    pc = "done" => TempDir(markdown_path) \notin fs_dirs

(***************************************************************************)
(* C14: when one uploader serves several documents, every diagram of a     *)
(* document is rendered into that document's own scratch directory, and    *)
(* each upload() starts with empty dedup and identifier maps.              *)
(***************************************************************************)
C14_UploadsAreIndependent ==
    /\ \A j \in 1..Len(mermaid_images) :
          SubSeq(mermaid_images[j].path, 1, 2) = TempDir(markdown_path)
    /\ pc = "start" =>
          /\ uploaded_by_path = <<>>
          /\ uploaded_attachments = <<>>
          /\ mermaid_attachments = <<>>
          /\ filename_to_new_attachment_id = <<>>
          /\ all_attachment_ids = <<>>
(***************************************************************************)
(* C15: in batch mode, with credentials configured, main() attempts the    *)
(* collected files one at a time in sorted order; with --continue-on-error *)
(* every file is attempted whatever failed before, without it the first    *)
(* failed file is the last one attempted; the exit code is 1 if a file     *)
(* failed and 0 if every file succeeded.                                   *)
(***************************************************************************)
FirstFailure ==
    IF \E k \in 1..Len(cli.results) : ~cli.results[k]
    THEN CHOOSE k \in 1..Len(cli.results) :
            ~cli.results[k] /\ \A j \in 1..(k - 1) : cli.results[j]
    ELSE 0

C15_BatchAttemptsAndExitCode ==
    (cli.pc = "exit" /\ cli.configured /\ cli.found # <<>>) =>
       /\ cli.attempted = SubSeq(cli.files, 1, Len(cli.attempted))
       /\ \A j \in 1..(Len(cli.files) - 1) :
             Rank(cli.files[j]) < Rank(cli.files[j + 1])
       /\ {cli.files[j] : j \in 1..Len(cli.files)}
             = {cli.found[j] : j \in 1..Len(cli.found)}
       /\ IF cli.continue_on_error \/ FirstFailure = 0
          THEN cli.attempted = cli.files
          ELSE Len(cli.attempted) = FirstFailure
       /\ cli.exit_code = IF FirstFailure # 0 THEN 1 ELSE 0
(***************************************************************************)
(* C16: the page name upload() settles on is the wiki_name argument when   *)
(* one is given; else the extracted H1 title when the document yields one; *)
(* else the stem of the file name.  That name, and no other, is the name   *)
(* of the first page write and of the returned result.                     *)
(***************************************************************************)
HasTitle == extract_h1_title(content) \notin {None, <<>>}

C16_NameOnScan ==
    pc = "start" /\ pc' \notin {"start", "raised"} =>
       /\ wiki_name # None => wiki_name' = wiki_name
       /\ wiki_name = None /\ HasTitle =>
             wiki_name' = extract_h1_title(content)
       /\ wiki_name = None /\ ~HasTitle =>
             wiki_name' = <<"doc">>

C16_NameKept ==
    pc # "start" /\ pc' # "start" => wiki_name' = wiki_name

C16_NameUsed ==
    /\ \A k \in CallsOf("create_or_update_wiki") : calls[k].name = wiki_name
    /\ pc = "done" => result.wiki_name = wiki_name

C17_SentContentIsSanitized ==
    /\ \A k \in CallsOf("create_or_update_wiki") :
          /\ ~HasEmoji(calls[k].content)
          /\ calls[k].content = remove_emojis(content)
    /\ \A k \in CallsOf("update_wiki") :
          /\ ~HasEmoji(calls[k].content)
          /\ calls[k].content = remove_emojis(rewritten)
          /\ \A e \in Entries(uploaded_attachments) :
                Linked(e.value.name) =>
                   /\ Occurs(BacklogImageTag(e.value.name), calls[k].content)
                   /\ ~Occurs(e.key, rewritten)

C17_Witness ==
    /\ SecondWriteDone
    /\ \E e \in Entries(uploaded_attachments) :
          /\ HasEmoji(e.key)
          /\ Linked(e.value.name)
          /\ Occurs(BacklogImageTag(e.value.name), remote_page.content)

(***************************************************************************)
(* C18: an image reference whose path starts with http://, https:// or //, *)
(* or whose path does not resolve to an existing file, is dropped by the   *)
(* scan and no upload_attachment call is ever made for it.                 *)
(***************************************************************************)
NotUploadable(ref) ==
    \/ ref.path[1] \in {"http://", "https://", "//"}
    \/ Resolved(ref.path) \notin Files

C18_NoUploadOfExternalOrMissing ==
    \A j \in 1..Len(extract_images(content)) :
       LET ref == extract_images(content)[j]
       IN  NotUploadable(ref) =>
              /\ resolve_image_path(ref.path) = <<>>
              /\ \A i \in 1..Len(images) :
                    images[i].original_text # ref.original_text
              /\ \A k \in UploadCalls :
                    /\ calls[k].text # ref.original_text
                    /\ calls[k].path # ref.path
                    /\ calls[k].path # Resolved(ref.path)

C18_Witness ==
    /\ Returned
    /\ \E j \in 1..Len(extract_images(content)) :
          extract_images(content)[j].path[1] = "//"
    /\ \E k \in UploadCalls : calls[k].ok
(***************************************************************************)
(* C19: within one upload() the link call is made at most once and only    *)
(* when an attachment was uploaded, and the identifier list passed to it   *)
(* holds every identifier that an upload_attachment call of this upload()  *)
(* returned, each exactly once.                                            *)
(***************************************************************************)
UploadedIds ==
    {Cardinality({j \in UploadCalls : j <= k /\ calls[j].ok})
        : k \in {c \in UploadCalls : calls[c].ok}}

C19_LinkOnceWithEveryUploadedId ==
    /\ Cardinality(CallsOf("attach_files_to_wiki")) <= 1
    /\ \A k \in CallsOf("attach_files_to_wiki") :
          /\ UploadedIds # {}
          /\ \A i, j \in 1..Len(calls[k].ids) :
                i # j => calls[k].ids[i] # calls[k].ids[j]
          /\ Range(calls[k].ids) = UploadedIds
(***************************************************************************)
(* C20: convert() reports success exactly when mmdc exited with status 0   *)
(* and the expected output file exists afterwards; an exit with status 0   *)
(* and no output file is a failure; a success carries the path of the      *)
(* output file and every failure carries no output path.                   *)
(***************************************************************************)
C20_SuccessIffExitZeroAndOutput ==
    /\ Len(cv.results) = Len(cv.runs)
    /\ \A k \in 1..Len(cv.results) :
          /\ cv.results[k].success <=>
                (cv.runs[k].returncode = 0 /\ cv.runs[k].output_exists)
          /\ cv.results[k].success =>
                cv.results[k].output_path = OutputDir \o cv.codes[k] \o <<".png">>
          /\ ~cv.results[k].success => cv.results[k].output_path = <<>>

C20_Witness ==
    /\ Len(cv.results) = 2
    /\ cv.runs[1].returncode = 0
    /\ ~cv.runs[1].output_exists
    /\ ~cv.results[1].success
    /\ cv.results[2].success
(***************************************************************************)
(* C21: after convert() has returned, with whatever result (success,       *)
(* non-zero exit, missing output, timeout, other error), the input file    *)
(* of that call does not exist.                                            *)
(***************************************************************************)
C21_InputFileRemoved ==
    /\ \A k \in 1..Len(cv.runs) : ~cv.runs[k].input_exists
    /\ cv.pc \in {"next", "returned"} =>
          \A k \in 1..Len(cv.runs) : cv.runs[k].name \notin cv.input_files

C21_Witness ==
    /\ cv.pc = "returned"
    /\ Len(cv.runs) = 2
    /\ cv.runs[1].outcome = "timeout"
    /\ cv.runs[2].outcome = "ok"
    /\ cv.input_files = {}

(***************************************************************************)
(* C22: convert() never raises; a timeout and any other error end in a     *)
(* failure result.                                                         *)
(***************************************************************************)
C22_ConvertNeverRaises ==
    cv.pc # "raised"

(***************************************************************************)
(* C23: convert_multiple returns one result per pair, in the order of the  *)
(* pairs, result i being the result of converting pair i; after a failure  *)
(* result the next pair is converted all the same.                         *)
(***************************************************************************)
ResultOfItem(k) ==
    /\ cv.runs[k].name = cv.codes[k]
    /\ cv.results[k] = convert(OutputDir, cv.codes[k], cv.runs[k].outcome)

C23_GoesOnAfterFailure ==
    (/\ cv.pc = "next"
     /\ Len(cv.results) < Len(cv.codes)
     /\ cv.results # <<>>
     /\ ~cv.results[Len(cv.results)].success)
    => /\ cv'.pc = "enter"
       /\ cv'.output_name = cv.codes[Len(cv.results) + 1]
       /\ cv'.results = cv.results

C23_Results ==
    /\ Len(cv.results) <= Len(cv.codes)
    /\ Len(cv.runs) = Len(cv.results)
    /\ \A k \in 1..Len(cv.results) : ResultOfItem(k)
    /\ cv.pc = "returned" => Len(cv.results) = Len(cv.codes)

C23_OneResultPerItemInOrder ==
    []C23_Results /\ [][C23_GoesOnAfterFailure]_vars

C23_Witness ==
    /\ cv.pc = "returned"
    /\ Len(cv.results) = 2
    /\ cv.codes[1] # cv.codes[2]
    /\ ~cv.results[1].success
    /\ cv.results[2].success
(***************************************************************************)
(* C24: create_or_update_wiki first asks for the list of pages and sends   *)
(* at most one write, after the list; when it returns it has sent exactly  *)
(* one write, as its last request: an update of the first listed page of   *)
(* exactly that name, with is_new false, if there is one, and otherwise a  *)
(* create with is_new true.  The project id is asked for only on the way   *)
(* to a create and only when the project was given as a key; a create for  *)
(* a key carries the id asked for, a create for a number that number.      *)
(***************************************************************************)
Writes ==
    {k \in 1..Len(bc.requests) : bc.requests[k].method \in {"PATCH", "POST"}}

ProjectLookups ==
    {k \in 1..Len(bc.requests) : bc.requests[k].path = "/projects/key"}

Listed ==
    {i \in 1..Len(bc.wikis) : bc.wikis[i] = bc.name}

C24_LookupThenOneWrite ==
    /\ bc.requests # <<>> =>
          bc.requests[1] = Request("GET", "/wikis",
                                   bc.project_id_or_key.key,
                                   bc.project_id_or_key.id)
    /\ Cardinality(Writes) <= 1
    /\ \A k \in Writes : k > 1 /\ k = Len(bc.requests)
    /\ ProjectLookups # {} =>
          /\ bc.project_id_or_key = ProjectKey
          /\ \A k \in ProjectLookups : bc.requests[k].key = <<"PRJ">>
          /\ Listed = {}
          /\ Cardinality(ProjectLookups) = 1
    /\ bc.pc = "returned" =>
          /\ Cardinality(Writes) = 1
          /\ LET w == bc.requests[Len(bc.requests)]
             IN  IF Listed # {}
                 THEN /\ w = Request("PATCH", "/wikis/id", <<>>,
                                     CHOOSE i \in Listed :
                                         \A j \in Listed : i <= j)
                      /\ ~bc.is_new
                      /\ bc.page = w.id
                 ELSE /\ w = Request("POST", "/wikis", <<>>, ProjectId)
                      /\ bc.is_new
                      /\ bc.page = NewWikiId
                      /\ (ProjectLookups # {}) <=>
                            (bc.project_id_or_key = ProjectKey)

C24_Witness ==
    /\ bc.pc = "returned"
    /\ bc.wikis = <<<<"t">>, <<"T">>>>
    /\ bc.requests[Len(bc.requests)] =
          Request("PATCH", "/wikis/id", <<>>, 2)

C24_WitnessCreate ==
    /\ bc.pc = "returned"
    /\ bc.wikis = <<<<"t">>, <<"U">>>>
    /\ bc.is_new
    /\ ProjectLookups # {}
(***************************************************************************)
(* C25: extract_h1_title returns the stripped rest of the first line that  *)
(* starts with "# ", whatever lines follow it, and None when no line of    *)
(* the document starts with "# ".                                          *)
(***************************************************************************)
HeadingLines(s) ==
    {k \in 1..Len(s) : (k = 1 \/ s[k - 1] = NL) /\ StartsWithAt(s, <<"#", " ">>, k)}

TitleOfFirstHeadingLine(s) ==
    IF HeadingLines(s) = {} THEN None
    ELSE LET k == CHOOSE i \in HeadingLines(s) :
                      \A j \in HeadingLines(s) : i <= j
         IN  Strip(SubSeq(s, k + 2, LineEnd(s, k) - 1))

C25_TitleIsOfFirstHeadingLine ==
    extract_h1_title(content) = TitleOfFirstHeadingLine(content)
(***************************************************************************)
(* C26: WikiUploader accepts a quiet keyword, as main() passes it: with    *)
(* credentials configured and a file to upload, the construction in main() *)
(* succeeds and the loop over the files is entered.                        *)
(***************************************************************************)
C26_QuietKeywordAccepted ==
    (cli.pc = "exit" /\ cli.configured /\ cli.files # <<>>) =>
       /\ "quiet" \in cli.parameters
       /\ cli.attempted # <<>>
(***************************************************************************)
(* C27: the summary of an upload() that is not a dry run counts what was   *)
(* uploaded: local_images_uploaded is the number of local image files that *)
(* an upload_attachment call uploaded, mermaid_images_uploaded the number  *)
(* of rendered images that one uploaded, and total_attachments the number  *)
(* of identifiers passed to attach_files_to_wiki.                          *)
(***************************************************************************)
ImageFilesUploaded ==
    {calls[k].path : k \in {c \in UploadCalls :
        calls[c].ok /\ \E j \in 1..Len(images) : images[j].path = calls[c].path}}

MermaidImagesUploaded ==
    {k \in UploadCalls :
        calls[k].ok /\ \E j \in 1..Len(mermaid_images) :
                           mermaid_images[j].path = calls[k].path}

C27_CountsOfImages ==
    Returned =>
       result.local_images_uploaded = Cardinality(ImageFilesUploaded)

C27_CountsOfDiagrams ==
    Returned =>
       result.mermaid_images_uploaded = Cardinality(MermaidImagesUploaded)

C27_CountsOfIds ==
    Returned =>
       /\ \A k \in CallsOf("attach_files_to_wiki") :
             result.total_attachments = Len(calls[k].ids)
       /\ CallsOf("attach_files_to_wiki") = {} => result.total_attachments = 0

C27_SummaryCountsUploads ==
    C27_CountsOfImages /\ C27_CountsOfDiagrams /\ C27_CountsOfIds
(***************************************************************************)
(* C28: the rewrite changes only the text of the extracted local image     *)
(* references and of the rendered diagram blocks: the content sent in the  *)
(* second page write is the document with the text at those places         *)
(* replaced and every stretch between them kept as it is, emoji stripped.  *)
(***************************************************************************)
LocalImageSpans ==
    LET imgs == extract_images(content)
    IN  {[first |-> imgs[j].start_pos,
          last |-> imgs[j].start_pos + Len(imgs[j].original_text) - 1] :
            j \in {i \in 1..Len(imgs) :
                      resolve_image_path(imgs[i].path) # <<>>}}

RenderedBlockSpans ==
    {[first |-> mermaid_blocks[j].start_pos,
      last |-> mermaid_blocks[j].start_pos
                  + Len(mermaid_blocks[j].original_text) - 1] :
        j \in {i \in 1..Len(mermaid_blocks) :
                  \E m \in 1..Len(mermaid_images) :
                     mermaid_images[m].original_text
                        = mermaid_blocks[i].original_text}}

InSpan(k) ==
    \E span \in LocalImageSpans \cup RenderedBlockSpans :
        span.first <= k /\ k <= span.last

\* The stretches of the document between the places that may change.
RECURSIVE Stretches(_, _)
Stretches(k, current) ==
    IF k > Len(content) THEN <<current>>
    ELSE IF ~InSpan(k) THEN Stretches(k + 1, Append(current, content[k]))
    ELSE IF k > 1 /\ InSpan(k - 1) THEN Stretches(k + 1, current)
    ELSE <<current>> \o Stretches(k + 1, <<>>)

\* text[from..] holds the stretches in their order, the last one at its end.
RECURSIVE KeepsFrom(_, _, _)
KeepsFrom(text, from, stretches) ==
    LET kept == remove_emojis(Head(stretches))
    IN  IF Len(stretches) = 1
        THEN /\ Len(text) - Len(kept) + 1 >= from
             /\ StartsWithAt(text, kept, Len(text) - Len(kept) + 1)
        ELSE LET hits == {i \in from..(Len(text) + 1) :
                             StartsWithAt(text, kept, i)}
             IN  /\ hits # {}
                 /\ KeepsFrom(text,
                              (CHOOSE i \in hits : \A j \in hits : i <= j)
                                  + Len(kept),
                              Tail(stretches))

Keeps(text, stretches) ==
    /\ StartsWithAt(text, remove_emojis(Head(stretches)), 1)
    /\ KeepsFrom(text, 1, stretches)

C28_RewriteKeepsOtherText ==
    \A k \in CallsOf("update_wiki") :
        Keeps(calls[k].content, Stretches(1, <<>>))
(***************************************************************************)
(* C29: a failure before the page exists is fatal.  With no file at        *)
(* markdown_path, upload() raises FileNotFoundError and makes no remote    *)
(* call; when the first page write fails, upload() raises, that call is    *)
(* its last remote call, and neither a link call nor a second page write   *)
(* is made.                                                                *)
(***************************************************************************)
C29_FatalBeforePageExists ==
    /\ markdown_path \notin Documents =>
          /\ calls = <<>>
          /\ pc \in {"start", "raised"}
          /\ pc = "raised" =>
                result = [kind |-> "raised", by |-> "FileNotFoundError"]
    /\ \A k \in CallsOf("create_or_update_wiki") :
          ~calls[k].ok =>
             /\ pc = "raised"
             /\ result = [kind |-> "raised", by |-> "create_or_update_wiki"]
             /\ k = Len(calls)
             /\ CallsOf("attach_files_to_wiki") = {}
             /\ CallsOf("update_wiki") = {}

C29_Witness ==
    /\ pc = "raised"
    /\ Len(calls) = 3
    /\ calls[1].op = "upload_attachment" /\ calls[1].ok
    /\ calls[2].op = "upload_attachment" /\ calls[2].ok
    /\ calls[3].op = "create_or_update_wiki" /\ ~calls[3].ok

C29_WitnessNotFound ==
    /\ pc = "raised"
    /\ markdown_path = MissingPath
    /\ result.by = "FileNotFoundError"
(***************************************************************************)
(* C30: for a directory, collect_markdown_files returns the files below it *)
(* that match the pattern (those of the directory itself only when the     *)
(* search is not recursive) and match no exclude pattern, each once, in    *)
(* ascending order of path; for a single file it returns that file when    *)
(* its suffix is .md in any letter case and nothing otherwise; for a path  *)
(* that does not exist it returns the empty list.                          *)
(***************************************************************************)
MatchingFiles ==
    {f \in cli.tree :
        /\ f \notin Directories
        /\ GlobMatch(f, cli.pattern)
        /\ cli.recursive \/ TopLevel(f)
        /\ \A exc_pattern \in cli.exclude : ~PathMatch(f, exc_pattern)}

C30_CollectedFiles ==
    cli.pc = "returned" =>
       CASE cli.path = "dir" ->
               /\ {cli.returned[j] : j \in 1..Len(cli.returned)}
                     = MatchingFiles
               /\ \A j \in 1..(Len(cli.returned) - 1) :
                     Rank(cli.returned[j]) < Rank(cli.returned[j + 1])
         [] cli.path = "file" ->
               cli.returned =
                  IF cli.suffix \in {".md", ".MD", ".Md"}
                  THEN <<"path">> ELSE <<>>
         [] OTHER -> cli.returned = <<>>
\* The first page write of the run, when it returned a page.
FirstWrites == {j \in CallsOf("create_or_update_wiki") : calls[j].ok}

(***************************************************************************)
(* C31: the remote calls of a run are ordered: the link call comes after   *)
(* the first page write has returned and addresses the page identifier     *)
(* that write returned; the second page write comes after the link call    *)
(* has returned and addresses the same page identifier.                    *)
(***************************************************************************)
C31_WritesAndLinkInOrder ==
    /\ Cardinality(CallsOf("create_or_update_wiki")) <= 1
    /\ \A k \in CallsOf("attach_files_to_wiki") :
          \E j \in FirstWrites :
             /\ j < k
             /\ calls[k].page = calls[j].page
             /\ calls[j].page = wiki_page.id
    /\ \A k \in CallsOf("update_wiki") :
          \E l \in CallsOf("attach_files_to_wiki") :
             /\ l < k
             /\ calls[l].ok
             /\ calls[k].page = calls[l].page
             /\ \E j \in FirstWrites : j < l /\ calls[k].page = calls[j].page

C31_Witness ==
    /\ Returned
    /\ SecondWriteDone
    /\ wiki_page.id = CreatedWikiId
    /\ \E k \in CallsOf("update_wiki") : calls[k].page = CreatedWikiId

C31_WitnessFound ==
    /\ Returned
    /\ SecondWriteDone
    /\ \E k \in CallsOf("attach_files_to_wiki") : calls[k].page = FoundWikiId
\* The page writes of the run: the first write and the second one.
PageWrites == CallsOf("create_or_update_wiki") \cup CallsOf("update_wiki")
PastRewrite ==
    /\ FirstWriteDone
    /\ \/ pc \in {"cleanup", "done"}
       \/ pc = "raised" /\ result.by = "update_wiki"

(***************************************************************************)
(* C32: a run that is not a dry run makes at most two page writes; it      *)
(* makes the second one if and only if the link step produced at least one *)
(* name-to-identifier mapping; when nothing was linked the page keeps the  *)
(* content of the first write.                                             *)
(***************************************************************************)
C32_SecondWriteIffMapping ==
    /\ Cardinality(PageWrites) <= 2
    /\ Cardinality(CallsOf("update_wiki")) <= 1
    /\ CallsOf("update_wiki") # {} => filename_to_new_attachment_id # <<>>
    /\ PastRewrite =>
          (CallsOf("update_wiki") # {} <=> filename_to_new_attachment_id # <<>>)
    /\ (PastRewrite /\ filename_to_new_attachment_id = <<>>) =>
          /\ remote_page.writes = 1
          /\ remote_page.content = remove_emojis(content)
          /\ rewritten = <<>>

C32_Witness ==
    /\ Returned
    /\ \E k \in CallsOf("attach_files_to_wiki") : calls[k].ok
    /\ filename_to_new_attachment_id = <<>>
    /\ get_all_local_images(content) # <<>>
    /\ remote_page.writes = 1

C32_WitnessSecondWrite ==
    /\ Returned
    /\ Cardinality(PageWrites) = 2
    /\ filename_to_new_attachment_id # <<>>
    /\ remote_page.writes = 2
\* The references of the document whose file is the one of path.
ReferencesTo(path) == {j \in 1..Len(images) : images[j].path = path}
\* A reference is rewritten when the second pass replaced its matched text:
\* the text is a key of uploaded_attachments, its attachment's name is
\* mapped, and the rewritten text holds the text no more.
ReferenceRewritten(j) ==
    /\ DictHas(uploaded_attachments, images[j].original_text)
    /\ Linked(DictGet(uploaded_attachments, images[j].original_text).name)
    /\ ~Occurs(images[j].original_text, rewritten)

(***************************************************************************)
(* C33: when the file of a resolved path was uploaded and linked, every    *)
(* reference to that path is rewritten in the final content, whatever its  *)
(* alt text and whatever the outcome of earlier upload attempts for the    *)
(* path: two references to one path are never left one rewritten and one   *)
(* not.                                                                    *)
(***************************************************************************)
C33_EveryReferenceToLinkedPathRewritten ==
    CallsOf("update_wiki") # {} =>
       \A j \in 1..Len(images) :
          (/\ DictHas(uploaded_by_path, images[j].path)
           /\ Linked(DictGet(uploaded_by_path, images[j].path).name)) =>
             \A k \in ReferencesTo(images[j].path) : ReferenceRewritten(k)
\* The file name upload() derives for the block at position j of the document.
FilenameOfBlock(j) ==
    generate_mermaid_filename(mermaid_blocks[j].code, j - 1)

(***************************************************************************)
(* C34: two diagram blocks at different positions of one document get      *)
(* different render file names, also when their bodies are identical; the  *)
(* file name of a block is a function of its body and its index alone, so  *)
(* every rendered image lies under the name derived from its block.        *)
(***************************************************************************)
C34_FilenamesDifferByPosition ==
    /\ \A j, k \in 1..Len(mermaid_blocks) :
          j # k => FilenameOfBlock(j) # FilenameOfBlock(k)
    /\ \A a, b \in 1..Len(mermaid_images) :
          /\ a # b => mermaid_images[a].path # mermaid_images[b].path
          /\ a # b => Basename(mermaid_images[a].path)
                         # Basename(mermaid_images[b].path)
          /\ Basename(mermaid_images[a].path) =
                FilenameOfBlock(mermaid_images[a].index) \o <<".png">>

C34_Witness ==
    /\ Len(mermaid_images) = 2
    /\ mermaid_blocks[1].code = mermaid_blocks[2].code
    /\ mermaid_images[1].path # mermaid_images[2].path
\* The link step of the run is over: the page exists and upload() went on.
PastLink ==
    /\ FirstWriteDone
    /\ \/ pc \in {"rewrite", "cleanup", "done"}
       \/ pc = "raised" /\ result.by = "update_wiki"

(***************************************************************************)
(* C35: every attachment that upload() uploaded successfully is handed to  *)
(* the link call of the same run: no successful upload_attachment call     *)
(* leaves an attachment that is never linked to the page, also when two    *)
(* diagram blocks have identical text.                                     *)
(***************************************************************************)
C35_EveryUploadIsLinked ==
    PastLink =>
       \A id \in UploadedIds :
          \E k \in CallsOf("attach_files_to_wiki") : id \in Range(calls[k].ids)
\* The embed tag the second pass wrote for reference j, when it rewrote it.
TagOfReference(j) ==
    BacklogImageTag(DictGet(uploaded_attachments,
                            images[j].original_text).name)

(***************************************************************************)
(* C36: two references that resolve to two different local files are never *)
(* rewritten to the same embed tag: distinct uploaded files, also files    *)
(* with equal base names in different directories, get distinguishable     *)
(* references in the final content.                                        *)
(***************************************************************************)
C36_DifferentFilesDifferentTags ==
    SecondWriteDone =>
       \A j, k \in 1..Len(images) :
          (/\ images[j].path # images[k].path
           /\ ReferenceRewritten(j)
           /\ ReferenceRewritten(k)) =>
             TagOfReference(j) # TagOfReference(k)
\* The spinner threads that have not returned from _spin().
RunningThreads == {t \in 1..Len(cli.threads) : cli.threads[t] # "dead"}
\* stop() has been called for the file thread t was started for.
StoppedFor(t) ==
    /\ t <= Len(cli.threads)
    /\ \/ cli.started > t
       \/ cli.started = t /\ cli.pc \notin {"upload", "stop"}

(***************************************************************************)
(* C37: over any sequence of start()/stop() calls the batch loop makes on  *)
(* the progress spinner, at most one spinner thread is running at any      *)
(* time, under every interleaving of the thread's loop with the main       *)
(* thread.                                                                 *)
(***************************************************************************)
C37_AtMostOneSpinnerThread == Cardinality(RunningThreads) <= 1

(***************************************************************************)
(* C37, the second half: every spinner thread started for a file           *)
(* eventually terminates after the stop() of that file.                    *)
(***************************************************************************)
C37_EveryThreadTerminates ==
    \A t \in 1..MaxFiles :
       StoppedFor(t) ~> (t <= Len(cli.threads) /\ cli.threads[t] = "dead")

(***************************************************************************)
(* C37 without the timeout: while the join of stop() has waited for the    *)
(* thread to end before every later start(), one thread at most runs.      *)
(***************************************************************************)
C37_OneThreadWhileJoinsWaited ==
    (\A t \in 1..Len(cli.threads) : StoppedFor(t) => cli.threads[t] = "dead")
       => Cardinality(RunningThreads) <= 1
\* p is the floor of 100 * current / total.
IsFloorOfPercent(p, current, total) ==
    /\ p * total <= 100 * current
    /\ 100 * current < (p + 1) * total
\* The files whose stop() has returned.
Handled ==
    IF cli.pc \in {"upload", "stop", "join"} THEN cli.started - 1
    ELSE cli.started

(***************************************************************************)
(* C38: each stop() of the progress spinner increases its current counter  *)
(* by exactly one, so after the batch loop handled k files current = k <=  *)
(* total; the displayed percentage is the floor of 100 * current / total   *)
(* and lies in 0..100, the progress bar always has exactly the requested   *)
(* width, and the percentage is 0 and the bar empty when total is 0.       *)
(***************************************************************************)
C38_CounterAndDisplay ==
    /\ cli.current = Handled
    /\ cli.current <= cli.total
    /\ cli.shown.by # "none" =>
          /\ cli.shown.percentage \in 0..100
          /\ Len(cli.shown.bar) = cli.shown.width
          /\ cli.shown.current \in {cli.current - 1, cli.current}
          /\ cli.total > 0 =>
                IsFloorOfPercent(cli.shown.percentage, cli.shown.current,
                                 cli.total)
          /\ cli.total = 0 =>
                /\ cli.shown.percentage = 0
                /\ \A j \in 1..Len(cli.shown.bar) : cli.shown.bar[j] = "EMPTY"
    /\ \A width \in Widths :
          Len(get_progress_bar(cli.total, cli.current, width)) = width

(***************************************************************************)
(* C38, the step: stop() adds exactly one to the counter and no other      *)
(* step changes it.                                                        *)
(***************************************************************************)
C38_StopAddsOne ==
    [][IF cli.pc = "join" /\ cli'.pc # "join"
       THEN cli'.current = cli.current + 1
       ELSE cli'.current = cli.current]_vars

C38_Witness ==
    /\ cli.pc = "exited"
    /\ cli.total = MaxFiles
    /\ cli.current = cli.total
    /\ cli.shown.by = "stop"
    /\ cli.shown.percentage = 100

C38_WitnessHalf ==
    /\ cli.total = 2
    /\ cli.current = 1
    /\ cli.shown.by \in Range(SPINNER_FRAMES)
    /\ cli.shown.percentage = 50

C38_WitnessZeroTotal ==
    /\ cli.total = 0
    /\ cli.shown.by = "query"
    /\ cli.shown.width = 10
=============================================================================
